---- MODULE Spec2Model ----
(***************************************************************************)
(* A model of the PineScript-Builder ingestion pipeline.                   *)
(*                                                                         *)
(*   SpecAcq     acquisition.acquire_inventory: robots exclusion, skip of  *)
(*               intact artifacts, fetch with retries, raw+sidecar write,  *)
(*               the halt-on-reference-failure policy;                     *)
(*               one run over an output root that may hold artifacts.      *)
(*   SpecReacq   repeated acquire_inventory runs over one output root,     *)
(*               with changing site content and process termination.      *)
(*   SpecRender  rendered_reference.render_reference: the poll loop, its   *)
(*               outcome classification, and the manifest written from it. *)
(*   SpecGuides  scripts/segment_v6_guides.py: the guide segmenter over    *)
(*               the manifests of a rendered guide run.                    *)
(*                                                                         *)
(* Files are a function from paths to contents; a path exists when it is   *)
(* in the function's domain.  Variables marked "history" record what the   *)
(* run did (network calls, sleeps, files created) and are never read by    *)
(* the modelled code.                                                      *)
(***************************************************************************)
EXTENDS Integers, Sequences, FiniteSets, TLC

(***************************************************************************)
(* Bounds of the model.                                                    *)
(***************************************************************************)
NItems == 3
MaxRuns == 2
MaxRetries == 2
MaxRobotsLines == 2
MaxAnchors == 2
MaxChecks == 2
MaxWait == 3
MaxManifests == 2
MaxHeadings == 6
MaxDocAnchors == 6
LargePage == 70
MaxBatch == 2
MaxArtifacts == 2
MaxRawAnchors == 3
MaxH2 == 2
DriftBase == 500
MaxDelta == 12
MaxPrefixCount == 1
NProcs == 2
MaxStamp == 2
MaxChunks == 2
MaxPathLen == 3
MaxRobotsText == 4
MaxRewriteRuns == 3

VARIABLES
    \* ---- the world acquisition runs in
    inventory,        \* list[InventoryItem] handed to acquire_inventory
    content,          \* url -> bytes the site serves for it now
    files,            \* the output root: path -> file contents
    now,              \* wall clock, in seconds
    runs,             \* number of acquire_inventory runs started
    runLimit,         \* number of runs the scenario holds
    \* ---- acquire_inventory's locals
    pc,               \* position of the run
    retries,
    backoff_seconds,
    disallow_paths,
    idx,              \* 1-based position of `item` in inventory (0: none yet)
    counts,
    log,              \* the lines of the run log file
    attempt,          \* fetch_with_retries.attempt
    result,           \* FetchResult of the current item
    target,           \* <<raw_path, meta_path>> chosen for the write
    \* ---- history
    outcome,          \* per position: what the run did with the item
    fetched,          \* positions for which fetch_bytes was called
    callLog,          \* outcomes of the fetch_bytes calls for the current item
    sleeps,           \* time.sleep arguments of the current fetch_with_retries
    newFiles,         \* paths written by the current run
    robotsFetches,    \* fetches of robots.txt in the current run
    slept,            \* time.sleep(sleep_seconds) was called since the last
                      \* call of fetch_bytes
    \* ---- render_reference and its caller
    rpc,              \* position in render_reference / render_and_manifest / main
    config,           \* RenderConfig
    current_count,
    previous_count,
    stable_count,
    scrolls,
    elapsed,          \* time.time() - start_time at the last reading
    notes,
    status,           \* RenderResult.status ("" until render_reference returns)
    manifestFile,     \* manifest.json of the run (<<>>: no such file)
    segmentsFile,     \* the lines of the run's reference segments file
    html,             \* reference.html of the run (<<>>: no such file)
    segmentLog,       \* the lines of the run's segmentation log
    mainExit,         \* SystemExit message of main ("": none)
    observed,         \* history: the anchor counts polled so far
    exitBy,           \* history: which break left the poll loop
    \* ---- segment_v6_guides.main
    gpc,
    manifests,        \* the run's *.manifest.json, sorted by name
    mIdx,             \* position of manifest_path in manifests
    hIdx,             \* headings of the current manifest handled so far
    out,              \* the lines of the segments output file
    segment_ids,
    total_segments,
    gExit,            \* SystemExit reason of the segmenter ("": none)
    \* ---- normalization (reference_normalization.py, normalize_v6_guides.py,
    \*      normalization.py)
    npc,
    entry,            \* the entry point: "reference", "guide" (v6) or "v5"
    source,           \* the lines of the segments file
    fallback_pages,   \* v5: the guide_no_h2 lines of the latest segmentation run
    raw_exists,       \* v5: the raw html of the fallback pages is on disk
    store,            \* the lines of the output file (reference_symbols,
                      \* guide_sections)
    pages_store,      \* v5: the lines of guide_pages.jsonl
    seen_ids,
    nIdx,             \* lines of source read so far
    written,
    nExit,            \* the exception that ended the run ("": none)
    nruns,            \* history: runs started
    storeBefore,      \* history: store when the run started
    pagesBefore,      \* history: pages_store when the run started
    \* ---- segmentation.segment_artifacts
    spc,
    artifacts,        \* load_artifacts(raw_root), sorted by canonical_url
    aIdx,
    rawSegments,      \* segments
    rawFailures,      \* failures
    \* ---- the drift detector (generate_drift_report, drift_report_v6.main)
    dpc,
    baseline,         \* the baseline manifest
    candidate,        \* the candidate manifest
    report,           \* the drift report file (<<>>: no such file)
    \* ---- two processes running side by side on one checkout
    cruns,            \* per process: which script it runs, with which run id
    cpos,             \* per process: its position
    ctarget,          \* per process: the artifact paths chosen for the write
    cfiles,           \* the paths that exist on disk
    cwrites,          \* history, per process: the paths it opened for writing
    rag_indexes,      \* per version: chunks.jsonl of the latest index directory
    enrichment,       \* per version: the symbol ids with an enrichment record
    response,         \* the response of the last pine_query call
    qc,               \* the outcome of _qc_checks ("" before it ran)
    upc,              \* canonicalization: "input", "once", "twice"
    url_in,           \* the URL text handed to canonicalize_url
    url_out,          \* its result (<<>> is None)
    url_again,        \* the result of canonicalizing url_out
    bpc,              \* robots parsing: "input", "parsed"
    robots_in,        \* the robots.txt text handed to parse_robots_disallow
    robots_out,       \* the list it returned
    mpc,              \* baseline selection: "input", "chosen"
    mlisting,         \* the run directories with a manifest, as glob lists them
    mcurrent,         \* the run id previous_manifest is asked about
    mchosen           \* the run id of the manifest it returned ("none": None)

acqVars == <<inventory, content, files, now, runs, runLimit, pc, retries, backoff_seconds,
             disallow_paths, idx, counts, log, attempt, result, target,
             outcome, fetched, callLog, sleeps, newFiles, robotsFetches,
             slept>>

renderVars == <<rpc, config, current_count, previous_count, stable_count,
                scrolls, elapsed, notes, status, manifestFile, segmentsFile, html, segmentLog, mainExit,
                observed, exitBy>>

guideVars == <<gpc, manifests, mIdx, hIdx, out, segment_ids, total_segments,
               gExit>>

normVars == <<npc, entry, source, fallback_pages, raw_exists, store, pages_store,
              seen_ids, nIdx, written, nExit, nruns, storeBefore, pagesBefore>>

rawVars == <<spc, artifacts, aIdx, rawSegments, rawFailures>>

driftVars == <<dpc, baseline, candidate, report>>

\* The variables of the tools that stand beside the ingestion pipeline.
concVars == <<cruns, cpos, ctarget, cfiles, cwrites>>

queryVars == <<rag_indexes, enrichment, response, qc>>

urlVars == <<upc, url_in, url_out, url_again>>

robotsVars == <<bpc, robots_in, robots_out>>

baselineVars == <<mpc, mlisting, mcurrent, mchosen>>

toolVars == <<driftVars, concVars, queryVars, urlVars, robotsVars, baselineVars>>

vars == <<acqVars, renderVars, guideVars, normVars, rawVars, toolVars>>

(***************************************************************************)
(* Input domains.                                                          *)
(***************************************************************************)
DocTypes == {"guide", "reference"}
Bytes == {"x", "y"}
StatusChoices == {199, 200, 299, 300}
BackoffChoices == {1, 3}
NoResult == [status |-> 0, raw_bytes |-> "none"]
NoTarget == <<>>

\* URL paths as sequences of characters; every path starts with "/".
Section(i) == IF i <= 2 THEN "a" ELSE "b"
ItemPath(i) == <<"/", Section(i), "/", ToString(i)>>

InventoryItem(i, dt) ==
    [canonical_url |-> ItemPath(i), doc_type |-> dt, pine_version |-> "v6"]

SeqsUpTo(S, n) == UNION {[1..k -> S] : k \in 0..n}

\* One line of robots.txt after strip(): its directive, and the value after
\* the colon (an agent name for user-agent, a path for the others).
RobotsLine(f, a, p) == [field |-> f, agent |-> a, path |-> p]
RobotsLines ==
    { RobotsLine("user-agent", "*", <<>>),
      RobotsLine("user-agent", "bot", <<>>),
      RobotsLine("disallow", "", <<"/", "a", "/", "1">>),
      RobotsLine("disallow", "", <<"/", "b">>),
      RobotsLine("disallow", "", <<"/">>),
      RobotsLine("disallow", "", <<>>),
      RobotsLine("comment", "", <<>>) }
RobotsTexts == SeqsUpTo(RobotsLines, MaxRobotsLines)

(***************************************************************************)
(* Pure helpers of acquisition.py.                                         *)
(***************************************************************************)
\* SHA-256 as an injective tagging of its input (no collisions).
sha256_hex(data) == <<"sha256", data>>

url_hash(url) == sha256_hex(url)

StartsWith(s, prefix) ==
    /\ Len(prefix) <= Len(s)
    /\ SubSeq(s, 1, Len(prefix)) = prefix

RECURSIVE ParseRobotsLines(_, _, _)
ParseRobotsLines(lines, active, disallow) ==
    IF lines = <<>> THEN disallow
    ELSE LET line == Head(lines)
             rest == Tail(lines)
         IN  IF line.field \in {"blank", "comment"}
                 THEN ParseRobotsLines(rest, active, disallow)
             ELSE IF line.field = "user-agent"
                 THEN ParseRobotsLines(rest, line.agent = "*", disallow)
             ELSE IF active /\ line.field = "disallow" /\ line.path # <<>>
                 THEN ParseRobotsLines(rest, active, Append(disallow, line.path))
             ELSE ParseRobotsLines(rest, active, disallow)

\* Mutant: the rules count from the first line on, whatever the agent.
parse_robots_disallow_active(robots_txt) ==
    ParseRobotsLines(robots_txt, TRUE, <<>>)

parse_robots_disallow(robots_txt) == ParseRobotsLines(robots_txt, FALSE, <<>>)

\* fetch_robots_txt: the body when the status is 200, "" otherwise.
fetch_robots_txt(http_status, body) == IF http_status # 200 THEN <<>> ELSE body

\* Mutant: whole-path equality instead of a prefix test.
is_allowed_exact_match(url, disallow) ==
    \A k \in 1..Len(disallow) : url # disallow[k]

is_allowed_by_robots(url, disallow) ==
    \A k \in 1..Len(disallow) : ~StartsWith(url, disallow[k])

\* suffix 0 stands for suffix=None; a timestamp suffix is the clock's value.
RawPath(item, suffix) ==
    [doc_type |-> item.doc_type, pine_version |-> item.pine_version,
     file_hash |-> url_hash(item.canonical_url), suffix |-> suffix,
     ext |-> "html"]

MetaPathOf(raw_path) == [raw_path EXCEPT !.ext = "html.meta.json"]

artifact_paths(item, suffix) ==
    <<RawPath(item, suffix), MetaPathOf(RawPath(item, suffix))>>

Exists(fs, path) == path \in DOMAIN fs

NoChecksum == <<>>

\* Mutant: the comparison of the stored checksum with the bytes is inverted.
existing_checksum_inverted(fs, meta_path, raw_path) ==
    IF ~Exists(fs, meta_path) \/ ~Exists(fs, raw_path) THEN NoChecksum
    ELSE IF sha256_hex(fs[raw_path]) = fs[meta_path].checksum THEN NoChecksum
    ELSE fs[meta_path].checksum

existing_checksum(fs, meta_path, raw_path) ==
    IF ~Exists(fs, meta_path) \/ ~Exists(fs, raw_path) THEN NoChecksum
    ELSE IF fs[meta_path].checksum = NoChecksum THEN NoChecksum
    ELSE IF sha256_hex(fs[raw_path]) # fs[meta_path].checksum THEN NoChecksum
    ELSE fs[meta_path].checksum

\* The sidecar written by write_raw_and_meta.  Of its fields the code reads
\* back only "checksum" (existing_checksum); the others are left out.
MetaRecord(fetch_result) ==
    [checksum |-> sha256_hex(fetch_result.raw_bytes)]

FailureRecord(item, reason) ==
    [canonical_url |-> item.canonical_url, doc_type |-> item.doc_type,
     pine_version |-> item.pine_version, reason |-> reason]

\* f"http_{result.status}"
HttpReason(http_status) == "http_" \o ToString(http_status)

IsFailureStatus(http_status) == http_status < 200 \/ http_status >= 300

\* Mutants: the halt test on the wrong document type; a halt on any failure.
HaltsRun_on_guide(item) == item.doc_type = "guide"
HaltsRun_always(item) == TRUE

\* if item.doc_type == "reference": counts["failed_reference"] += 1; break
HaltsRun(item) == item.doc_type = "reference"

\* fetch_with_retries: `if attempt > retries: raise`
RetriesExhausted(att, max_retries) == att > max_retries

\* Mutant: the exponent is off by one.
BackoffDelay_off_by_one(backoff, att) == backoff * (2 ^ att)

\* fetch_with_retries: time.sleep(backoff_seconds * (2 ** (attempt - 1)))
BackoffDelay(backoff, att) == backoff * (2 ^ (att - 1))

\* What lines 226-227 can yield: any status, any robots.txt body.
RobotsOutcomes ==
    { parse_robots_disallow(fetch_robots_txt(http_status, body)) :
        http_status \in StatusChoices, body \in RobotsTexts }

\* Mutant: the robots.txt request is counted as an attempt.
ZeroCounts_robots_counted ==
    [attempted |-> 1, written |-> 0, skipped |-> 0,
     failed_guide |-> 0, failed_reference |-> 0]

\* Lines 231-237.
ZeroCounts ==
    [attempted |-> 0, written |-> 0, skipped |-> 0,
     failed_guide |-> 0, failed_reference |-> 0]

(***************************************************************************)
(* acquire_inventory, one action per stretch of code between two           *)
(* interactions with the network, the disk or the clock.                   *)
(***************************************************************************)
Item == inventory[idx]
NextItem == inventory[idx + 1]
Idle == {"idle", "done", "raised", "killed"}
Running == {"robots", "loop", "fetch", "write_raw", "write_meta"}

\* The three failure branches of the loop: one FailureRecord line, then either
\* failed_reference += 1; break  or  failed_guide += 1; continue.
RecordFailure(i, reason, c) ==
    LET item == inventory[i] IN
    /\ log' = Append(log, FailureRecord(item, reason))
    /\ outcome' = [outcome EXCEPT ![i] = reason]
    /\ IF HaltsRun(item)
          THEN /\ counts' = [c EXCEPT !.failed_reference = @ + 1]
               /\ pc' = "done"
          ELSE /\ counts' = [c EXCEPT !.failed_guide = @ + 1]
               /\ pc' = "loop"

\* A call of acquire_inventory(inventory, output_root, run_log_path, retries,
\* backoff_seconds, sleep_seconds) by a fresh process, with retries and
\* backoff_seconds drawn from R and B.  Since the previous run the clock may
\* have advanced and the site may serve other content.
StartRun(R, B) ==
    /\ pc \in Idle
    /\ runs < runLimit
    /\ runs' = runs + 1
    /\ \E r \in R, b \in B :
          /\ retries' = r
          /\ backoff_seconds' = b
    /\ IF runs = 0
          THEN UNCHANGED <<now, content>>
          ELSE /\ now' \in {now, now + 1}
               /\ content' \in [DOMAIN content -> Bytes]
    /\ pc' = "robots"
    /\ idx' = 0
    /\ disallow_paths' = <<>>
    /\ counts' = ZeroCounts
    /\ attempt' = 0
    /\ result' = NoResult
    /\ target' = NoTarget
    /\ outcome' = [i \in 1..Len(inventory) |-> "none"]
    /\ fetched' = {}
    /\ callLog' = <<>>
    /\ sleeps' = <<>>
    /\ newFiles' = {}
    /\ robotsFetches' = 0
    /\ UNCHANGED <<inventory, files, runLimit, log>>
    /\ slept' = FALSE
    /\ UNCHANGED <<renderVars, guideVars, normVars, rawVars, toolVars>>

\* Lines 225-239: robots.txt is fetched and parsed, the counters are zeroed and
\* the run log is opened with mode "w".
FetchRobots ==
    /\ pc = "robots"
    /\ robotsFetches' = robotsFetches + 1
    /\ disallow_paths' \in RobotsOutcomes
    /\ counts' = ZeroCounts
    /\ log' = <<>>
    /\ pc' = "loop"
    /\ UNCHANGED <<inventory, content, files, now, runs, runLimit, retries,
                   backoff_seconds, idx, attempt, result, target, outcome,
                   fetched, callLog, sleeps, newFiles>>
    /\ slept' = FALSE
    /\ UNCHANGED <<renderVars, guideVars, normVars, rawVars, toolVars>>

\* fetch_robots_txt calls fetch_bytes without a try: its exception leaves
\* acquire_inventory before the run log is opened.
FetchRobotsRaises ==
    /\ pc = "robots"
    /\ robotsFetches' = robotsFetches + 1
    /\ pc' = "raised"
    /\ UNCHANGED <<inventory, content, files, now, runs, runLimit, retries,
                   backoff_seconds, disallow_paths, idx, counts, log, attempt,
                   result, target, outcome, fetched, callLog, sleeps, newFiles>>
    /\ UNCHANGED slept
    /\ UNCHANGED <<renderVars, guideVars, normVars, rawVars, toolVars>>

\* The for loop is exhausted: return counts.
LoopExit ==
    /\ pc = "loop"
    /\ idx = Len(inventory)
    /\ pc' = "done"
    /\ UNCHANGED <<inventory, content, files, now, runs, runLimit, retries,
                   backoff_seconds, disallow_paths, idx, counts, log, attempt,
                   result, target, outcome, fetched, callLog, sleeps, newFiles,
                   robotsFetches>>
    /\ UNCHANGED slept
    /\ UNCHANGED <<renderVars, guideVars, normVars, rawVars, toolVars>>

\* Lines 241-254: the next item is disallowed by robots.txt.
ItemRobotsDisallow ==
    /\ pc = "loop"
    /\ idx < Len(inventory)
    /\ ~is_allowed_by_robots(NextItem.canonical_url, disallow_paths)
    /\ idx' = idx + 1
    /\ RecordFailure(idx + 1, "robots_disallow",
                     [counts EXCEPT !.attempted = @ + 1])
    /\ callLog' = <<>>
    /\ sleeps' = <<>>
    /\ UNCHANGED <<inventory, content, files, now, runs, runLimit, retries,
                   backoff_seconds, disallow_paths, attempt, result, target,
                   fetched, newFiles, robotsFetches>>
    /\ UNCHANGED slept
    /\ UNCHANGED <<renderVars, guideVars, normVars, rawVars, toolVars>>

\* Lines 256-260: the artifact at the item's base path is intact: skip.
ItemSkip ==
    /\ pc = "loop"
    /\ idx < Len(inventory)
    /\ is_allowed_by_robots(NextItem.canonical_url, disallow_paths)
    /\ LET paths == artifact_paths(NextItem, 0)
       IN  existing_checksum(files, paths[2], paths[1]) # NoChecksum
    /\ idx' = idx + 1
    /\ counts' = [counts EXCEPT !.attempted = @ + 1, !.skipped = @ + 1]
    /\ outcome' = [outcome EXCEPT ![idx + 1] = "skipped"]
    /\ callLog' = <<>>
    /\ sleeps' = <<>>
    /\ UNCHANGED <<inventory, content, files, now, runs, runLimit, pc, retries,
                   backoff_seconds, disallow_paths, log, attempt, result,
                   target, fetched, newFiles, robotsFetches>>
    /\ UNCHANGED slept
    /\ UNCHANGED <<renderVars, guideVars, normVars, rawVars, toolVars>>

\* Lines 262-263: fetch_with_retries is entered (attempt = 0).
ItemBeginFetch ==
    /\ pc = "loop"
    /\ idx < Len(inventory)
    /\ is_allowed_by_robots(NextItem.canonical_url, disallow_paths)
    /\ LET paths == artifact_paths(NextItem, 0)
       IN  existing_checksum(files, paths[2], paths[1]) = NoChecksum
    /\ idx' = idx + 1
    /\ counts' = [counts EXCEPT !.attempted = @ + 1]
    /\ attempt' = 0
    /\ callLog' = <<>>
    /\ sleeps' = <<>>
    /\ result' = NoResult
    /\ target' = NoTarget
    /\ pc' = "fetch"
    /\ UNCHANGED <<inventory, content, files, now, runs, runLimit, retries,
                   backoff_seconds, disallow_paths, log, outcome, fetched,
                   newFiles, robotsFetches>>
    /\ UNCHANGED slept
    /\ UNCHANGED <<renderVars, guideVars, normVars, rawVars, toolVars>>

\* fetch_bytes raises and retries are left: attempt += 1, sleep, loop.
FetchRaisesRetry ==
    /\ pc = "fetch"
    /\ ~RetriesExhausted(attempt + 1, retries)
    /\ attempt' = attempt + 1
    /\ fetched' = fetched \cup {idx}
    /\ callLog' = Append(callLog, "raise")
    /\ sleeps' = Append(sleeps, BackoffDelay(backoff_seconds, attempt + 1))
    /\ UNCHANGED <<inventory, content, files, now, runs, runLimit, pc, retries,
                   backoff_seconds, disallow_paths, idx, counts, log, result,
                   target, outcome, newFiles, robotsFetches>>
    /\ slept' = FALSE
    /\ UNCHANGED <<renderVars, guideVars, normVars, rawVars, toolVars>>

\* fetch_bytes raises and attempt > retries: fetch_with_retries re-raises and
\* lines 264-276 record fetch_error.
FetchRaisesFinal ==
    /\ pc = "fetch"
    /\ RetriesExhausted(attempt + 1, retries)
    /\ attempt' = attempt + 1
    /\ fetched' = fetched \cup {idx}
    /\ callLog' = Append(callLog, "raise")
    /\ RecordFailure(idx, "fetch_error", counts)
    /\ UNCHANGED <<inventory, content, files, now, runs, runLimit, retries,
                   backoff_seconds, disallow_paths, idx, result, target,
                   sleeps, newFiles, robotsFetches>>
    /\ slept' = FALSE
    /\ UNCHANGED <<renderVars, guideVars, normVars, rawVars, toolVars>>

\* fetch_bytes returns a non-2xx status: lines 278-290 record http_<status>.
FetchHttpFailure ==
    /\ pc = "fetch"
    /\ \E http_status \in StatusChoices :
          /\ IsFailureStatus(http_status)
          /\ result' = [status |-> http_status,
                        raw_bytes |-> content[Item.canonical_url]]
          /\ RecordFailure(idx, HttpReason(http_status), counts)
    /\ fetched' = fetched \cup {idx}
    /\ callLog' = Append(callLog, "return")
    /\ UNCHANGED <<inventory, content, files, now, runs, runLimit, retries,
                   backoff_seconds, disallow_paths, idx, attempt, target,
                   sleeps, newFiles, robotsFetches>>
    /\ slept' = FALSE
    /\ UNCHANGED <<renderVars, guideVars, normVars, rawVars, toolVars>>

\* fetch_bytes returns a 2xx status: lines 292-295 choose the paths, with a
\* timestamp suffix when a file already sits at the base raw or meta path.
FetchSuccess ==
    /\ pc = "fetch"
    /\ \E http_status \in StatusChoices :
          /\ ~IsFailureStatus(http_status)
          /\ result' = [status |-> http_status,
                        raw_bytes |-> content[Item.canonical_url]]
    /\ LET base == artifact_paths(Item, 0)
       IN  target' = IF Exists(files, base[1]) \/ Exists(files, base[2])
                        THEN artifact_paths(Item, now)
                        ELSE base
    /\ fetched' = fetched \cup {idx}
    /\ callLog' = Append(callLog, "return")
    /\ pc' = "write_raw"
    /\ UNCHANGED <<inventory, content, files, now, runs, runLimit, retries,
                   backoff_seconds, disallow_paths, idx, counts, log, attempt,
                   outcome, sleeps, newFiles, robotsFetches>>
    /\ slept' = FALSE
    /\ UNCHANGED <<renderVars, guideVars, normVars, rawVars, toolVars>>

\* write_raw_and_meta, lines 193-194: the raw bytes are written.
WriteRaw ==
    /\ pc = "write_raw"
    /\ files' = (target[1] :> result.raw_bytes) @@ files
    /\ newFiles' = newFiles \cup {target[1]}
    /\ pc' = "write_meta"
    /\ UNCHANGED <<inventory, content, now, runs, runLimit, retries,
                   backoff_seconds, disallow_paths, idx, counts, log, attempt,
                   result, target, outcome, fetched, callLog, sleeps,
                   robotsFetches>>
    /\ UNCHANGED slept
    /\ UNCHANGED <<renderVars, guideVars, normVars, rawVars, toolVars>>

\* write_raw_and_meta, lines 195-214: the sidecar is written; then
\* counts["written"] += 1 and the politeness sleep.
WriteMeta ==
    /\ pc = "write_meta"
    /\ files' = (target[2] :> MetaRecord(result)) @@ files
    /\ newFiles' = newFiles \cup {target[2]}
    /\ counts' = [counts EXCEPT !.written = @ + 1]
    /\ outcome' = [outcome EXCEPT ![idx] = "written"]
    /\ pc' = "loop"
    /\ UNCHANGED <<inventory, content, now, runs, runLimit, retries,
                   backoff_seconds, disallow_paths, idx, log, attempt, result,
                   target, fetched, callLog, sleeps, robotsFetches>>
    /\ slept' = TRUE
    /\ UNCHANGED <<renderVars, guideVars, normVars, rawVars, toolVars>>

\* The process is terminated between two steps: its memory is gone, the
\* output root and the run log stay as they are.
Kill ==
    /\ pc \in Running
    /\ pc' = "killed"
    /\ retries' = 0
    /\ backoff_seconds' = 1
    /\ disallow_paths' = <<>>
    /\ idx' = 0
    /\ counts' = ZeroCounts
    /\ attempt' = 0
    /\ result' = NoResult
    /\ target' = NoTarget
    /\ outcome' = [i \in 1..Len(inventory) |-> "none"]
    /\ fetched' = {}
    /\ callLog' = <<>>
    /\ sleeps' = <<>>
    /\ newFiles' = {}
    /\ robotsFetches' = 0
    /\ UNCHANGED <<inventory, content, files, now, runs, runLimit, log>>
    /\ slept' = FALSE
    /\ UNCHANGED <<renderVars, guideVars, normVars, rawVars, toolVars>>

NextAcq ==
    \/ StartRun(0..MaxRetries, BackoffChoices)
    \/ FetchRobots
    \/ FetchRobotsRaises
    \/ LoopExit
    \/ ItemRobotsDisallow
    \/ ItemSkip
    \/ ItemBeginFetch
    \/ FetchRaisesRetry
    \/ FetchRaisesFinal
    \/ FetchHttpFailure
    \/ FetchSuccess
    \/ WriteRaw
    \/ WriteMeta
    \/ Kill

\* Repeated runs over one output root, each with retries = 0.
NextReacq ==
    \/ StartRun({0}, {1})
    \/ FetchRobots
    \/ FetchRobotsRaises
    \/ LoopExit
    \/ ItemRobotsDisallow
    \/ ItemSkip
    \/ ItemBeginFetch
    \/ FetchRaisesFinal
    \/ FetchHttpFailure
    \/ FetchSuccess
    \/ WriteRaw
    \/ WriteMeta
    \/ Kill

\* The artifact an earlier, completed run left at an item's base path.
EarlierArtifact(item) ==
    LET paths == artifact_paths(item, 0)
    IN  (paths[1] :> "x") @@
        (paths[2] :> MetaRecord([status |-> 200, raw_bytes |-> "x"]))

RECURSIVE MergeAll(_, _)
MergeAll(fss, k) == IF k = 0 THEN <<>> ELSE fss[k] @@ MergeAll(fss, k - 1)

(***************************************************************************)
(* The states in which a subsystem is not running: a specification of one  *)
(* subsystem keeps the others there.                                       *)
(***************************************************************************)
NoConfig ==
    [anchor_min_threshold |-> 0, stabilize_checks |-> 0, max_wait_seconds |-> 0,
     stabilize_interval_seconds |-> 0, max_scrolls |-> 0]

RenderAtRest ==
    /\ rpc = "off"
    /\ config = NoConfig
    /\ current_count = 0
    /\ previous_count = -1
    /\ stable_count = 0
    /\ scrolls = 0
    /\ elapsed = 0
    /\ notes = ""
    /\ status = ""
    /\ manifestFile = <<>>
    /\ segmentsFile = <<>>
    /\ html = <<>>
    /\ segmentLog = <<>>
    /\ mainExit = ""
    /\ observed = <<>>
    /\ exitBy = "none"

NormAtRest ==
    /\ npc = "off"
    /\ entry = "none"
    /\ source = <<>>
    /\ fallback_pages = <<>>
    /\ raw_exists = FALSE
    /\ store = <<>>
    /\ pages_store = <<>>
    /\ seen_ids = {}
    /\ nIdx = 0
    /\ written = 0
    /\ nExit = ""
    /\ nruns = 0
    /\ storeBefore = <<>>
    /\ pagesBefore = <<>>

DriftAtRest ==
    /\ dpc = "off"
    /\ baseline = <<>>
    /\ candidate = <<>>
    /\ report = <<>>

ConcAtRest ==
    /\ cruns = <<>>
    /\ cpos = <<>>
    /\ ctarget = <<>>
    /\ cfiles = {}
    /\ cwrites = <<>>

QueryAtRest ==
    /\ rag_indexes = <<>>
    /\ enrichment = <<>>
    /\ response = <<>>
    /\ qc = ""

UrlAtRest ==
    /\ upc = "off"
    /\ url_in = <<>>
    /\ url_out = <<>>
    /\ url_again = <<>>

RobotsAtRest ==
    /\ bpc = "off"
    /\ robots_in = <<>>
    /\ robots_out = <<>>

BaselineAtRest ==
    /\ mpc = "off"
    /\ mlisting = <<>>
    /\ mcurrent = ""
    /\ mchosen = ""

ToolsAtRest ==
    /\ DriftAtRest /\ ConcAtRest /\ QueryAtRest /\ UrlAtRest /\ RobotsAtRest
    /\ BaselineAtRest

RawAtRest ==
    /\ spc = "off"
    /\ artifacts = <<>>
    /\ aIdx = 0
    /\ rawSegments = <<>>
    /\ rawFailures = <<>>

GuidesAtRest ==
    /\ gpc = "off"
    /\ manifests = <<>>
    /\ mIdx = 0
    /\ hIdx = 0
    /\ out = <<>>
    /\ segment_ids = {}
    /\ total_segments = 0
    /\ gExit = ""

\* Everything but the inventory and the output root, before the first run.
InitRun(n, limit) ==
    /\ content = [u \in {ItemPath(i) : i \in 1..n} |-> "x"]
    /\ now = 1
    /\ runs = 0
    /\ runLimit = limit
    /\ pc = "idle"
    /\ retries = 0
    /\ backoff_seconds = 1
    /\ disallow_paths = <<>>
    /\ idx = 0
    /\ counts = ZeroCounts
    /\ log = <<>>
    /\ attempt = 0
    /\ result = NoResult
    /\ target = NoTarget
    /\ outcome = [i \in 1..n |-> "none"]
    /\ fetched = {}
    /\ callLog = <<>>
    /\ sleeps = <<>>
    /\ newFiles = {}
    /\ robotsFetches = 0
    /\ slept = FALSE

\* One run over NItems items of any document types; the output root holds
\* the intact artifacts of any subset of them, left by earlier runs.
InitAcq ==
    /\ \E dts \in [1..NItems -> DocTypes] :
          inventory = [i \in 1..NItems |-> InventoryItem(i, dts[i])]
    /\ \E have \in SUBSET (1..NItems) :
          files = MergeAll([i \in 1..NItems |->
                              IF i \in have THEN EarlierArtifact(inventory[i])
                                            ELSE <<>>], NItems)
    /\ InitRun(NItems, 1)
    /\ RenderAtRest
    /\ GuidesAtRest
    /\ NormAtRest
    /\ RawAtRest
    /\ ToolsAtRest

SpecAcq == InitAcq /\ [][NextAcq]_vars

\* Up to MaxRuns runs over NItems - 1 items, starting from an empty output
\* root.
InitReacq ==
    /\ \E dts \in [1..(NItems - 1) -> DocTypes] :
          inventory = [i \in 1..(NItems - 1) |-> InventoryItem(i, dts[i])]
    /\ files = <<>>
    /\ InitRun(NItems - 1, MaxRuns)
    /\ RenderAtRest
    /\ GuidesAtRest
    /\ NormAtRest
    /\ RawAtRest
    /\ ToolsAtRest

SpecReacq == InitReacq /\ [][NextReacq]_vars

(***************************************************************************)
(* Vocabulary of the acquisition claims.                                   *)
(***************************************************************************)
Positions == 1..Len(inventory)
IsFailure(o) == o \notin {"none", "skipped", "written"}
Url(i) == inventory[i].canonical_url
LogRecordsOf(i) == {n \in 1..Len(log) : log[n].canonical_url = Url(i)}
NewFilesOf(i) == {p \in newFiles : p.file_hash = url_hash(Url(i))}
PathHasDisallowedPrefix(i) ==
    \E k \in 1..Len(disallow_paths) : StartsWith(Url(i), disallow_paths[k])
Untouched(i) ==
    /\ outcome[i] = "none"
    /\ i \notin fetched
    /\ NewFilesOf(i) = {}
    /\ LogRecordsOf(i) = {}

\* C1: once a reference item at position k has failed (robots_disallow,
\* fetch_error or http_<status>), every item before k has been processed,
\* failed_reference is 1 with exactly one FailureRecord for item k, the
\* attempted counter is k, the run has left the loop, and no item after k
\* was fetched, written or logged.
C1_ReferenceFailureHalts ==
    \A k \in Positions :
        (inventory[k].doc_type = "reference" /\ IsFailure(outcome[k])) =>
            /\ \A j \in 1..(k - 1) : outcome[j] # "none"
            /\ counts.failed_reference = 1
            /\ Cardinality(LogRecordsOf(k)) = 1
            /\ counts.attempted = k
            /\ pc = "done"
            /\ \A j \in (k + 1)..Len(inventory) : Untouched(j)

\* Three items, the second a reference that fails every one of its
\* retries + 1 > 1 fetches, after the first item was written.
C1_Witness ==
    /\ pc = "done"
    /\ Len(inventory) >= 3
    /\ inventory[2].doc_type = "reference"
    /\ outcome[2] = "fetch_error"
    /\ retries >= 1
    /\ Len(callLog) = retries + 1
    /\ outcome[1] = "written"
    /\ outcome[3] = "none"

\* C2: for every guide item that failed, the run log holds exactly one
\* FailureRecord for it, carrying the failure's reason; no file was written
\* for it; failed_guide counts exactly the failed guide items; and the run
\* goes on: it ends only with every item attempted or with a reference
\* failure.
C2_GuideFailureContinues ==
    /\ \A j \in Positions :
          (inventory[j].doc_type = "guide" /\ IsFailure(outcome[j])) =>
              /\ Cardinality(LogRecordsOf(j)) = 1
              /\ \A n \in LogRecordsOf(j) :
                    /\ log[n].reason = outcome[j]
                    /\ log[n].doc_type = "guide"
              /\ NewFilesOf(j) = {}
    /\ pc \in (Running \cup {"done"}) =>
          counts.failed_guide =
              Cardinality({j \in Positions : /\ inventory[j].doc_type = "guide"
                                             /\ IsFailure(outcome[j])})
    /\ pc = "done" =>
          \/ counts.attempted = Len(inventory)
          \/ counts.failed_reference = 1

\* A finished run in which the first item, a guide, failed with http_300 and
\* a later item was still written.
C2_Witness ==
    /\ pc = "done"
    /\ inventory[1].doc_type = "guide"
    /\ outcome[1] = "http_300"
    /\ \E j \in 2..Len(inventory) : outcome[j] = "written"
    /\ counts.failed_guide >= 1

\* C6 as stated: in a finished run robots.txt was fetched exactly once, and
\* every item with a disallowed path prefix is logged as robots_disallow and
\* was neither fetched nor written.
C6_Original ==
    pc = "done" =>
        /\ robotsFetches = 1
        /\ \A j \in Positions :
              PathHasDisallowedPrefix(j) =>
                  /\ \E n \in LogRecordsOf(j) : log[n].reason = "robots_disallow"
                  /\ j \notin fetched
                  /\ NewFilesOf(j) = {}

\* C6, amended: robots.txt is fetched once per run and before any item is
\* fetched; no item with a disallowed path prefix is ever fetched or
\* written; and every such item the run reaches (it comes before the halt on
\* a reference failure) is logged exactly once, as robots_disallow.
C6_RobotsOnceAndHonoured ==
    /\ robotsFetches <= 1
    /\ (pc \in {"loop", "fetch", "write_raw", "write_meta", "done"}) =>
          robotsFetches = 1
    /\ fetched # {} => robotsFetches = 1
    /\ \A j \in Positions :
          PathHasDisallowedPrefix(j) =>
              /\ j \notin fetched
              /\ NewFilesOf(j) = {}
              /\ outcome[j] \in {"none", "robots_disallow"}
              /\ j <= counts.attempted =>
                    /\ Cardinality(LogRecordsOf(j)) = 1
                    /\ \A n \in LogRecordsOf(j) :
                          log[n].reason = "robots_disallow"

\* A finished run that logged a disallowed item and wrote an allowed one.
C6_Witness ==
    /\ pc = "done"
    /\ \E j \in Positions :
          /\ PathHasDisallowedPrefix(j)
          /\ outcome[j] = "robots_disallow"
    /\ \E j \in Positions : outcome[j] = "written"

\* C7: fetch_with_retries calls fetch_bytes at most retries + 1 times; only
\* its last call can be one that returned, and the loop is left on it; the
\* k-th retry is preceded by a sleep of backoff_seconds * 2^(k-1), for
\* k = 1..retries at most; and the item is recorded as fetch_error exactly
\* when retries + 1 calls have all raised.
Raises == {n \in 1..Len(callLog) : callLog[n] = "raise"}
C7_BoundedRetries ==
    /\ Len(callLog) <= retries + 1
    /\ \A n \in 1..(Len(callLog) - 1) : callLog[n] = "raise"
    /\ pc = "fetch" => Raises = 1..Len(callLog)
    /\ Len(sleeps) = (IF Cardinality(Raises) > retries
                         THEN retries ELSE Cardinality(Raises))
    /\ \A k \in 1..Len(sleeps) : sleeps[k] = backoff_seconds * (2 ^ (k - 1))
    /\ (idx >= 1 /\ pc \in (Running \cup {"done"})) =>
          /\ outcome[idx] = "fetch_error" <=>
                (Raises = 1..Len(callLog) /\ Len(callLog) = retries + 1)
          /\ (callLog # <<>> /\ callLog[Len(callLog)] = "return") =>
                /\ pc # "fetch"
                /\ result.status \in StatusChoices
                /\ outcome[idx] \in {"none", "written", HttpReason(result.status)}

\* All retries + 1 = 3 calls raised, with sleeps of 3 and 6 seconds between.
C7_Witness ==
    /\ idx >= 1
    /\ outcome[idx] = "fetch_error"
    /\ retries = 2
    /\ backoff_seconds = 3
    /\ sleeps = <<3, 6>>
    /\ Len(callLog) = 3

(***************************************************************************)
(* Claims about repeated runs over one output root (SpecReacq).            *)
(***************************************************************************)
\* A raw file with its sidecar, both left by an earlier run, the sidecar's
\* checksum being that of the raw bytes.
ArtifactOfEarlierRun(raw_path) ==
    /\ Exists(files, raw_path)
    /\ Exists(files, MetaPathOf(raw_path))
    /\ raw_path \notin newFiles
    /\ MetaPathOf(raw_path) \notin newFiles
    /\ files[MetaPathOf(raw_path)].checksum = sha256_hex(files[raw_path])

ArtifactPathsOf(i) ==
    {p \in DOMAIN files : p.ext = "html" /\ p.file_hash = url_hash(Url(i))}

\* The site still serves the bytes stored at raw_path.
SourceUnchanged(i, raw_path) == files[raw_path] = content[Url(i)]

\* C3 as stated: when a run has returned, every item for which an earlier
\* run wrote an artifact (at any path) and whose source content is unchanged
\* was not fetched, got no new file and was counted as skipped.
C3_Original ==
    pc = "done" =>
        \A i \in Positions :
            (\E p \in ArtifactPathsOf(i) :
                 ArtifactOfEarlierRun(p) /\ SourceUnchanged(i, p)) =>
                /\ i \notin fetched
                /\ NewFilesOf(i) = {}
                /\ outcome[i] = "skipped"

\* C3, amended: every item whose artifact an earlier run wrote at the item's
\* base path (no timestamp suffix) and whose source content is unchanged is
\* never fetched and gets no new file in a later run, and is counted as
\* skipped as soon as the run reaches it with robots.txt allowing its path.
C3_IntactBaseArtifactSkipped ==
    \A i \in Positions :
        LET base == RawPath(inventory[i], 0) IN
        (ArtifactOfEarlierRun(base) /\ SourceUnchanged(i, base)) =>
            /\ i \notin fetched
            /\ NewFilesOf(i) = {}
            /\ outcome[i] \in {"none", "skipped", "robots_disallow"}
            /\ (i <= counts.attempted /\ ~PathHasDisallowedPrefix(i)) =>
                  outcome[i] = "skipped"

\* A second run has returned after skipping an item the first run wrote.
C3_Witness ==
    /\ pc = "done"
    /\ runs = 2
    /\ counts.skipped >= 1
    /\ \E i \in Positions :
          /\ outcome[i] = "skipped"
          /\ ArtifactOfEarlierRun(RawPath(inventory[i], 0))
          /\ SourceUnchanged(i, RawPath(inventory[i], 0))

\* C4 as stated: when a run has returned, every item it reached with
\* robots.txt allowing it, and whose source content differs from the bytes an
\* earlier run stored at its base path, was fetched and not counted as
\* skipped.
C4_ChangedContentRefetched ==
    pc = "done" =>
        \A i \in Positions :
            LET base == RawPath(inventory[i], 0) IN
            (/\ ArtifactOfEarlierRun(base)
             /\ ~SourceUnchanged(i, base)
             /\ i <= counts.attempted
             /\ ~PathHasDisallowedPrefix(i)) =>
                /\ i \in fetched
                /\ outcome[i] # "skipped"

\* C5 as stated, at rest: whenever no run is executing (none started, the
\* last one returned, raised or was terminated), every raw artifact file in
\* the output root has its .meta.json sidecar.
C5_NoRawWithoutSidecar ==
    pc \in Idle =>
        \A p \in DOMAIN files :
            p.ext = "html" => Exists(files, MetaPathOf(p))

(***************************************************************************)
(* rendered_reference.render_reference and its caller                      *)
(* (scripts/ingest_reference_v6_rendered.py).                              *)
(***************************************************************************)
\* Mutant: a changed count does not reset the stability counter.
StableAfterPoll_no_reset(stable, current, previous) ==
    IF current = previous THEN stable + 1 ELSE stable

\* Mutant: a changed count restarts the stability counter at one.
StableAfterPoll_from_one(stable, current, previous) ==
    IF current = previous THEN stable + 1 ELSE 1

\* Lines 120-123: the stability counter after a poll.
StableAfterPoll(stable, current, previous) ==
    IF current = previous THEN stable + 1 ELSE 0

\* Lines 126 and 148: the threshold-and-stability condition.
StabilizationHeld(count, stable, cfg) ==
    count >= cfg.anchor_min_threshold /\ stable >= cfg.stabilize_checks

\* Lines 148-153: the status of the RenderResult.
RenderStatus(count, stable, cfg, n) ==
    IF n # "" THEN "failed"
    ELSE IF StabilizationHeld(count, stable, cfg) THEN "complete"
    ELSE "partial"

AcqAtRest ==
    /\ inventory = <<>>
    /\ files = <<>>
    /\ InitRun(0, 0)

\* render_reference(url, config) is called with any small RenderConfig.
InitRender ==
    /\ rpc = "goto"
    /\ \E t \in 0..MaxAnchors, c \in 0..MaxChecks, s \in 0..1, i \in 1..2 :
          config = [anchor_min_threshold |-> t, stabilize_checks |-> c,
                    max_wait_seconds |-> MaxWait,
                    stabilize_interval_seconds |-> i, max_scrolls |-> s]
    /\ current_count = 0
    /\ previous_count = -1
    /\ stable_count = 0
    /\ scrolls = 0
    /\ elapsed = 0
    /\ notes = ""
    /\ status = ""
    /\ manifestFile = <<>>
    /\ segmentsFile = <<>>
    /\ html = <<>>
    /\ segmentLog = <<>>
    /\ mainExit = ""
    /\ observed = <<>>
    /\ exitBy = "none"
    /\ AcqAtRest
    /\ GuidesAtRest
    /\ NormAtRest
    /\ RawAtRest
    /\ ToolsAtRest

\* Lines 80-96: the browser is launched, the page loaded, start_time taken.
RenderGoto ==
    /\ rpc = "goto"
    /\ rpc' = "poll"
    /\ elapsed' = 0
    /\ UNCHANGED <<config, current_count, previous_count, stable_count, scrolls,
                   notes, status, manifestFile, segmentsFile, html,
                   segmentLog, mainExit, observed, exitBy>>
    /\ UNCHANGED <<acqVars, guideVars, normVars, rawVars, toolVars>>

\* Lines 98-127: one poll of the anchors, the stability counter, the break on
\* the threshold-and-stability condition.
RenderPoll ==
    /\ rpc = "poll"
    /\ \E n \in 0..MaxAnchors :
          /\ current_count' = n
          /\ observed' = Append(observed, n)
          /\ stable_count' = StableAfterPoll(stable_count, n, previous_count)
          /\ previous_count' = n
    /\ IF StabilizationHeld(current_count', stable_count', config)
          THEN rpc' = "settle" /\ exitBy' = "condition"
          ELSE rpc' = "scroll" /\ UNCHANGED exitBy
    /\ UNCHANGED <<config, scrolls, elapsed, notes, status, manifestFile, segmentsFile, html,
                   segmentLog,
                   mainExit>>
    /\ UNCHANGED <<acqVars, guideVars, normVars, rawVars, toolVars>>

\* Mutant: the ceiling is tested one interval late.
WaitExceeded_late(waited, cfg) ==
    waited > cfg.max_wait_seconds + cfg.stabilize_interval_seconds

\* Line 136: time.time() - start_time > config.max_wait_seconds.
WaitExceeded(waited, cfg) == waited > cfg.max_wait_seconds

\* Lines 129-138: a scroll while fewer than max_scrolls were issued, the
\* sleep, and the break on the wall-clock ceiling.  The iteration takes the
\* sleep's interval, or a second more.
RenderScrollSleep ==
    /\ rpc = "scroll"
    /\ scrolls' = IF scrolls < config.max_scrolls THEN scrolls + 1 ELSE scrolls
    /\ \E jitter \in 0..1 :
          elapsed' = elapsed + config.stabilize_interval_seconds + jitter
    /\ IF WaitExceeded(elapsed', config)
          THEN /\ notes' = "render_timeout"
               /\ rpc' = "settle"
               /\ exitBy' = "timeout"
          ELSE /\ rpc' = "poll"
               /\ UNCHANGED <<notes, exitBy>>
    /\ UNCHANGED <<config, current_count, previous_count, stable_count, status,
                   manifestFile, segmentsFile, html,
                   segmentLog, mainExit, observed>>
    /\ UNCHANGED <<acqVars, guideVars, normVars, rawVars, toolVars>>

\* Lines 140-162: the settle delay, the capture, and the RenderResult.
RenderReturn ==
    /\ rpc = "settle"
    /\ status' = RenderStatus(current_count, stable_count, config, notes)
    /\ rpc' = "returned"
    /\ UNCHANGED <<config, current_count, previous_count, stable_count, scrolls,
                   elapsed, notes, manifestFile, segmentsFile, html,
                   segmentLog, mainExit, observed, exitBy>>
    /\ UNCHANGED <<acqVars, guideVars, normVars, rawVars, toolVars>>

\* A Playwright call raises (navigation, evaluate, content): the exception
\* leaves render_reference, which has no handler, and main with it.
RenderRaises ==
    /\ rpc \in {"goto", "poll", "scroll", "settle"}
    /\ rpc' = "raised"
    /\ UNCHANGED <<config, current_count, previous_count, stable_count, scrolls,
                   elapsed, notes, status, manifestFile, segmentsFile, html,
                   segmentLog, mainExit, observed,
                   exitBy>>
    /\ UNCHANGED <<acqVars, guideVars, normVars, rawVars, toolVars>>

\* A reference document: n prefixed-id elements in the container, the first
\* e of them without a symbol name; with dup the last one repeats the id of
\* the first.
RefDoc(n, e, dup, container) ==
    [container |-> container,
     anchors |-> [k \in 1..n |->
                    [anchor_id |-> IF dup /\ k = n THEN 1 ELSE k,
                     symbol_name |-> IF k <= e THEN "" ELSE "name"]]]

\* RenderResult.html: the page as captured after the settle delay, whose
\* container (when there is one) holds the anchors of the last poll, or one
\* more that came in during the delay.
RenderedDocs(count) ==
    { RefDoc(n, 0, FALSE, c) : n \in {count, count + 1}, c \in BOOLEAN }

\* The process is terminated while render_reference runs: nothing it held
\* in memory is left, the files stay as they are.
RenderKill ==
    /\ rpc \in {"goto", "poll", "scroll", "settle"}
    /\ rpc' = "killed"
    /\ UNCHANGED <<config, current_count, previous_count, stable_count, scrolls,
                   elapsed, notes, status, manifestFile, segmentsFile, html,
                   segmentLog, mainExit, observed,
                   exitBy>>
    /\ UNCHANGED <<acqVars, guideVars, normVars, rawVars, toolVars>>

\* ManifestDue_early: the manifest is also written from the settle delay.
ManifestDue_early(position) == position \in {"settle", "returned"}

\* render_and_manifest, lines 140-175: write_manifest follows the return of
\* render_reference.
ManifestDue(position) == position = "returned"

\* render_and_manifest, lines 141-185: reference.html, then manifest.json.
WriteManifest ==
    /\ ManifestDue(rpc)
    /\ html' \in RenderedDocs(current_count)
    /\ manifestFile' = [status |-> status, notes |-> notes,
                        anchor_count_total |-> current_count]
    /\ rpc' = "manifest_written"
    /\ UNCHANGED <<config, current_count, previous_count, stable_count, scrolls,
                   elapsed, notes, status, segmentsFile, segmentLog, mainExit, observed, exitBy>>
    /\ UNCHANGED <<acqVars, guideVars, normVars, rawVars, toolVars>>

\* main, lines 312-316: only a complete manifest goes on to segmentation.
MainGate ==
    /\ rpc = "manifest_written"
    /\ IF manifestFile.status # "complete"
          THEN mainExit' = "render_failed" /\ rpc' = "exit"
          ELSE mainExit' = "" /\ rpc' = "segment_reference"
    /\ UNCHANGED <<config, current_count, previous_count, stable_count, scrolls,
                   elapsed, notes, status, manifestFile, segmentsFile, html,
                   segmentLog, observed, exitBy>>
    /\ UNCHANGED <<acqVars, guideVars, normVars, rawVars, toolVars>>

\* segment_reference, line 215: empty_limit.
EmptyLimit(anchor_total) ==
    IF anchor_total \div 10 > 5 THEN anchor_total \div 10 ELSE 5

\* segment_reference, line 202: the produced count against the manifest's.
\* Mutant: only too few segments are a mismatch.
SegmentCountMismatch_too_few(segment_count, anchor_total) ==
    segment_count < anchor_total

SegmentCountMismatch(segment_count, anchor_total) ==
    segment_count # anchor_total

\* Mutant: the duplicate check of lines 241-242 is missing.
HasDuplicateAnchor_unchecked(anchors) == FALSE

\* segment_reference_html, lines 236-243: some anchor id was seen before.
HasDuplicateAnchor(anchors) ==
    \E j, k \in 1..Len(anchors) : j < k /\ anchors[j].anchor_id = anchors[k].anchor_id

\* segment_reference_html, lines 220-282, on a document given by whether it
\* has the main#tv-content / main.tv-content container and by the elements
\* of the container whose id carries a table prefix, in document order.  The
\* serialized nodes of a segment start with the anchor's own tag, so raw_html
\* is never empty.
segment_reference_html(doc) ==
    IF ~doc.container
       THEN [error |-> "reference_container_missing", segments |-> <<>>]
    ELSE IF doc.anchors = <<>>
       THEN [error |-> "reference_no_anchors", segments |-> <<>>]
    ELSE IF HasDuplicateAnchor(doc.anchors)
       THEN [error |-> "duplicate_anchor_id", segments |-> <<>>]
    ELSE [error |-> "",
          segments |-> [k \in 1..Len(doc.anchors) |->
                          [anchor_id |-> doc.anchors[k].anchor_id,
                           symbol_name |-> doc.anchors[k].symbol_name,
                           segment_order |-> k,
                           raw_html |-> "<tag>"]]]

\* The qc counts of lines 277-281.
EmptySymbolNames(segments) ==
    Cardinality({k \in 1..Len(segments) : segments[k].symbol_name = ""})

EmptyRawHtml(segments) ==
    Cardinality({k \in 1..Len(segments) : segments[k].raw_html = ""})

\* segment_reference, lines 188-257, called by main after its gate or on a
\* manifest that was written before: the status gate, the parse (a ValueError
\* of segment_reference_html is not caught), the three QC checks with their
\* log lines, and only then the segments file and the log line of the run.
SegmentReference ==
    /\ rpc \in {"manifest_written", "segment_reference"}
    /\ IF manifestFile.status # "complete"
          THEN /\ mainExit' = "render_incomplete"
               /\ rpc' = "exit"
               /\ UNCHANGED <<segmentsFile, segmentLog>>
          ELSE LET parsed == segment_reference_html(html)
                   segments == parsed.segments
                   anchor_total == manifestFile.anchor_count_total
               IN  IF parsed.error # ""
                      THEN /\ mainExit' = parsed.error
                           /\ rpc' = "exit"
                           /\ UNCHANGED <<segmentsFile, segmentLog>>
                   ELSE IF SegmentCountMismatch(Len(segments), anchor_total)
                      THEN /\ mainExit' = "segment_count_mismatch"
                           /\ rpc' = "exit"
                           /\ segmentLog' = Append(segmentLog,
                                 [status |-> "failed",
                                  reason |-> "segment_count_mismatch",
                                  segment_count |-> Len(segments),
                                  anchor_count_total |-> anchor_total])
                           /\ UNCHANGED segmentsFile
                   ELSE IF EmptySymbolNames(segments) > EmptyLimit(anchor_total)
                      THEN /\ mainExit' = "empty_symbol_names"
                           /\ rpc' = "exit"
                           /\ segmentLog' = Append(segmentLog,
                                 [status |-> "failed",
                                  reason |-> "empty_symbol_names",
                                  empty_symbol_names |-> EmptySymbolNames(segments),
                                  anchor_count_total |-> anchor_total])
                           /\ UNCHANGED segmentsFile
                   ELSE IF EmptyRawHtml(segments) > 0
                      THEN /\ mainExit' = "empty_raw_html"
                           /\ rpc' = "exit"
                           /\ segmentLog' = Append(segmentLog,
                                 [status |-> "failed",
                                  reason |-> "empty_raw_html",
                                  empty_raw_html |-> EmptyRawHtml(segments)])
                           /\ UNCHANGED segmentsFile
                   ELSE /\ mainExit' = ""
                        /\ rpc' = "segmented"
                        /\ segmentsFile' = segmentsFile \o segments
                        /\ segmentLog' = Append(segmentLog,
                              [status |-> "complete",
                               segment_count |-> Len(segments),
                               empty_symbol_names |-> EmptySymbolNames(segments),
                               empty_raw_html |-> EmptyRawHtml(segments)])
    /\ UNCHANGED <<config, current_count, previous_count, stable_count, scrolls,
                   elapsed, notes, status, manifestFile, html, observed, exitBy>>
    /\ UNCHANGED <<acqVars, guideVars, normVars, rawVars, toolVars>>

NextRender ==
    \/ RenderGoto
    \/ RenderPoll
    \/ RenderScrollSleep
    \/ RenderReturn
    \/ RenderRaises
    \/ RenderKill
    \/ WriteManifest
    \/ MainGate
    \/ SegmentReference

SpecRender == InitRender /\ [][NextRender]_vars

\* The reference documents segment_reference is tried on: every small one,
\* and a large one whose empty symbol names are at the limit or just above.
RefDocs ==
    { RefDoc(n, e, dup, c) :
        n \in 0..MaxDocAnchors, e \in 0..MaxDocAnchors, dup \in BOOLEAN,
        c \in BOOLEAN }
    \cup { RefDoc(LargePage, e, FALSE, TRUE) :
             e \in {LargePage \div 10, LargePage \div 10 + 1} }

\* segment_reference(run_id, manifest) on any manifest and any stored html.
InitSegment ==
    /\ rpc = "segment_reference"
    /\ \E st \in {"complete", "partial", "failed"},
          total \in (0..MaxDocAnchors) \cup {LargePage} :
          manifestFile = [status |-> st,
                          notes |-> IF st = "failed" THEN "render_timeout" ELSE "",
                          anchor_count_total |-> total]
    /\ html \in RefDocs
    /\ config = NoConfig
    /\ current_count = 0
    /\ previous_count = -1
    /\ stable_count = 0
    /\ scrolls = 0
    /\ elapsed = 0
    /\ notes = ""
    /\ status = ""
    /\ segmentsFile = <<>>
    /\ segmentLog = <<>>
    /\ mainExit = ""
    /\ observed = <<>>
    /\ exitBy = "none"
    /\ AcqAtRest
    /\ GuidesAtRest
    /\ NormAtRest
    /\ RawAtRest
    /\ ToolsAtRest

NextSegment == SegmentReference

SpecSegment == InitSegment /\ [][NextSegment]_vars

\* The reasons segment_reference can stop with, and those it logs.
SegmentAbortReasons ==
    {"reference_container_missing", "reference_no_anchors",
     "duplicate_anchor_id", "segment_count_mismatch", "empty_symbol_names",
     "empty_raw_html"}

UnnamedAnchors == Cardinality({k \in 1..Len(html.anchors) :
                                  html.anchors[k].symbol_name = ""})

\* C11: once segment_reference has run on a complete manifest with
\* anchor_count_total = N, either the segments file holds exactly N segments,
\* each with non-empty raw_html and at most max(5, floor(N / 10)) of them
\* without a symbol name, or it holds none and the run stopped with one of
\* the six reasons, the three QC reasons with a log line that carries the
\* reason and its counts.
C11_SegmentReferenceGate ==
    (manifestFile # <<>> /\ manifestFile.status = "complete"
        /\ rpc \in {"segmented", "exit"}) =>
        LET N == manifestFile.anchor_count_total
            limit == IF N \div 10 > 5 THEN N \div 10 ELSE 5
            empty == Cardinality({k \in 1..Len(segmentsFile) :
                                     segmentsFile[k].symbol_name = ""})
            last == segmentLog[Len(segmentLog)]
        IN  \/ /\ rpc = "segmented"
               /\ mainExit = ""
               /\ Len(segmentsFile) = N
               /\ \A k \in 1..N : segmentsFile[k].raw_html # ""
               /\ empty <= limit
            \/ /\ rpc = "exit"
               /\ segmentsFile = <<>>
               /\ mainExit \in SegmentAbortReasons
               /\ mainExit = "segment_count_mismatch" =>
                     /\ Len(segmentLog) = 1
                     /\ last.reason = mainExit
                     /\ last.segment_count = Len(html.anchors)
                     /\ last.anchor_count_total = N
               /\ mainExit = "empty_symbol_names" =>
                     /\ Len(segmentLog) = 1
                     /\ last.reason = mainExit
                     /\ last.empty_symbol_names = UnnamedAnchors
                     /\ last.anchor_count_total = N
               /\ mainExit = "empty_raw_html" =>
                     /\ Len(segmentLog) = 1
                     /\ last.reason = mainExit
                     /\ last.empty_raw_html >= 1

\* A large page was segmented with more than five unnamed symbols, within
\* its limit of a tenth.
C11_Witness ==
    /\ rpc = "segmented"
    /\ manifestFile.status = "complete"
    /\ Len(segmentsFile) = LargePage
    /\ UnnamedAnchors > 5

\* C8 as stated: when render_reference has returned, status is complete
\* exactly when the loop was left on the threshold-and-stability condition,
\* it is partial when the loop was left on the wall-clock timeout, and
\* failed is never the status of a plain timeout.
C8_OutcomeClassification ==
    status # "" =>
        /\ status = "complete" <=> exitBy = "condition"
        /\ exitBy = "timeout" => status = "partial"
        /\ status = "failed" => exitBy # "timeout"

\* The last stabilize_checks poll-to-poll comparisons found equal counts.
LastPollsEqual(n) ==
    /\ Len(observed) >= n + 1
    /\ \A k \in 1..n :
          observed[Len(observed) - k + 1] = observed[Len(observed) - k]

\* C9 as stated: status complete only with the last polled count strictly
\* above anchor_min_threshold, the stability counter at stabilize_checks or
\* more, and the last stabilize_checks comparisons equal.
C9_Original ==
    status = "complete" =>
        /\ observed[Len(observed)] > config.anchor_min_threshold
        /\ stable_count >= config.stabilize_checks
        /\ LastPollsEqual(config.stabilize_checks)

\* C9, amended: status complete only with the last polled count at least
\* anchor_min_threshold (equal to it is enough), the stability counter at
\* stabilize_checks or more, and the last stabilize_checks poll-to-poll
\* comparisons equal.
C9_CompleteOnlyWhenStable ==
    status = "complete" =>
        /\ observed[Len(observed)] >= config.anchor_min_threshold
        /\ stable_count >= config.stabilize_checks
        /\ LastPollsEqual(config.stabilize_checks)

\* A complete render after the count changed and then stayed at the
\* threshold for stabilize_checks = 2 comparisons.
C9_Witness ==
    /\ status = "complete"
    /\ config.stabilize_checks = 2
    /\ config.anchor_min_threshold >= 1
    /\ Len(observed) >= 4
    /\ observed[Len(observed)] = config.anchor_min_threshold
    /\ \E k \in 1..(Len(observed) - 1) : observed[k] # observed[k + 1]

(***************************************************************************)
(* scripts/segment_v6_guides.py: main.                                     *)
(***************************************************************************)
\* Line 125: a run must yield more than this many segments.
SegmentCountFloor == 10

GuideUrls == {"u1", "u2"}

\* A rendered guide: its manifest and what BeautifulSoup finds in its html
\* ("missing": no file at artifact_path; "no_container": neither main nor
\* body; headings: the number of h1/h2/h3 tags in the container).
GuideManifest(st, dt, pv, page, n, url) ==
    [status |-> st, doc_type |-> dt, pine_version |-> pv, html |-> page,
     headings |-> n, canonical_url |-> url]

\* Manifests without a defect, and manifests with one.
GuideManifests ==
    { GuideManifest("complete", "guide", "v6", "ok", n, u) :
        n \in 1..MaxHeadings, u \in GuideUrls }
    \cup { GuideManifest(st, "guide", "v6", "ok", 1, "u1") :
             st \in {"partial", "failed"} }
    \cup { GuideManifest("complete", "reference", "v6", "ok", 1, "u1"),
           GuideManifest("complete", "guide", "v5", "ok", 1, "u1"),
           GuideManifest("complete", "guide", "v6", "missing", 1, "u1"),
           GuideManifest("complete", "guide", "v6", "no_container", 0, "u1"),
           GuideManifest("complete", "guide", "v6", "ok", 0, "u1") }

\* A line of the segments output file.
GuideSegment(manifest, segment_order, run) ==
    [segment_id |-> <<manifest.canonical_url, segment_order>>, run |-> run]

\* Lines 46-71: the checks on one manifest, in the code's order ("": passed).
ManifestDefect(manifest) ==
    IF manifest.status # "complete" THEN "manifest_incomplete"
    ELSE IF manifest.doc_type # "guide" THEN "manifest_doc_type"
    ELSE IF manifest.pine_version # "v6" THEN "manifest_pine_version"
    ELSE IF manifest.html = "missing" THEN "missing_html"
    ELSE IF manifest.html = "no_container" THEN "guide_container_missing"
    ELSE IF manifest.headings = 0 THEN "guide_no_headings"
    ELSE ""

\* Mutant: the total may equal the floor.
BelowThreshold_strict(total) == total < SegmentCountFloor

\* Line 125.
BelowThreshold(total) == total <= SegmentCountFloor

\* The segmenter is started on any short list of manifests; the output file
\* is absent (or empty), or holds the lines of an earlier run.
InitGuides ==
    /\ gpc = "start"
    /\ manifests \in SeqsUpTo(GuideManifests, MaxManifests)
    /\ mIdx = 0
    /\ hIdx = 0
    /\ out \in {<<>>, <<GuideSegment([canonical_url |-> "u1"], 1, "earlier")>>}
    /\ segment_ids = {}
    /\ total_segments = 0
    /\ gExit = ""
    /\ AcqAtRest
    /\ RenderAtRest
    /\ NormAtRest
    /\ RawAtRest
    /\ ToolsAtRest

\* Lines 31-41: the output_exists and no_manifests guards.
GuideStart ==
    /\ gpc = "start"
    /\ IF out # <<>>
          THEN gExit' = "output_exists" /\ gpc' = "exit" /\ UNCHANGED mIdx
          ELSE IF manifests = <<>>
          THEN gExit' = "no_manifests" /\ gpc' = "exit" /\ UNCHANGED mIdx
          ELSE gExit' = "" /\ gpc' = "manifest" /\ mIdx' = 1
    /\ UNCHANGED <<manifests, hIdx, out, segment_ids, total_segments>>
    /\ UNCHANGED <<acqVars, renderVars, normVars, rawVars, toolVars>>

\* Lines 44-74: the next manifest is read and checked.
ManifestCheck ==
    /\ gpc = "manifest"
    /\ LET defect == ManifestDefect(manifests[mIdx])
       IN  IF defect # ""
              THEN gExit' = defect /\ gpc' = "exit" /\ UNCHANGED hIdx
              ELSE gpc' = "heading" /\ hIdx' = 1 /\ UNCHANGED gExit
    /\ UNCHANGED <<manifests, mIdx, out, segment_ids, total_segments>>
    /\ UNCHANGED <<acqVars, renderVars, normVars, rawVars, toolVars>>

\* Lines 75-123: one heading: the duplicate check, then the record is written
\* to the output file, which was opened before the loop over the manifests.
WriteSegment ==
    /\ gpc = "heading"
    /\ LET manifest == manifests[mIdx]
           segment_id == <<manifest.canonical_url, hIdx>>
       IN  IF segment_id \in segment_ids
              THEN /\ gExit' = "duplicate_segment_id"
                   /\ gpc' = "exit"
                   /\ UNCHANGED <<mIdx, hIdx, out, segment_ids, total_segments>>
              ELSE /\ segment_ids' = segment_ids \cup {segment_id}
                   /\ out' = Append(out, GuideSegment(manifest, hIdx, "this"))
                   /\ total_segments' = total_segments + 1
                   /\ IF hIdx < manifest.headings
                         THEN hIdx' = hIdx + 1 /\ UNCHANGED <<gpc, mIdx>>
                         ELSE /\ hIdx' = 0
                              /\ IF mIdx < Len(manifests)
                                    THEN mIdx' = mIdx + 1 /\ gpc' = "manifest"
                                    ELSE UNCHANGED mIdx /\ gpc' = "final"
                   /\ UNCHANGED gExit
    /\ UNCHANGED manifests
    /\ UNCHANGED <<acqVars, renderVars, normVars, rawVars, toolVars>>

\* Lines 125-129: the floor on the run's segment count.
GuideFinalCheck ==
    /\ gpc = "final"
    /\ IF BelowThreshold(total_segments)
          THEN gExit' = "segment_count_below_threshold" /\ gpc' = "exit"
          ELSE gExit' = "" /\ gpc' = "done"
    /\ UNCHANGED <<manifests, mIdx, hIdx, out, segment_ids, total_segments>>
    /\ UNCHANGED <<acqVars, renderVars, normVars, rawVars, toolVars>>

NextGuides ==
    \/ GuideStart
    \/ ManifestCheck
    \/ WriteSegment
    \/ GuideFinalCheck

SpecGuides == InitGuides /\ [][NextGuides]_vars

\* The lines of the segments output file that this run wrote.
SegmentsOfThisRun == { k \in 1..Len(out) : out[k].run = "this" }

\* The manifest the segmenter stopped on is not complete.
StoppedOnIncomplete ==
    /\ gpc = "exit"
    /\ mIdx >= 1
    /\ manifests[mIdx].status # "complete"

\* C10: the rendered-reference pipeline.  A manifest that is not complete
\* leaves the segments file without a line, and the pipeline, once stopped,
\* stopped with render_failed or render_incomplete.
C10_ReferencePipelineRefuses ==
    (manifestFile # <<>> /\ manifestFile.status # "complete") =>
        /\ segmentsFile = <<>>
        /\ rpc \notin {"segmented", "segment_reference"}
        /\ rpc = "exit" => mainExit \in {"render_failed", "render_incomplete"}

\* C10 as stated: a run with a manifest that is not complete writes no
\* segment to a segments output file; the rendered-reference pipeline stops
\* with render_failed / render_incomplete and the guide segmenter with
\* manifest_incomplete.
C10_NoSegmentOnIncompleteManifest ==
    /\ C10_ReferencePipelineRefuses
    /\ (\E i \in 1..Len(manifests) : manifests[i].status # "complete")
          => SegmentsOfThisRun = {}
    /\ StoppedOnIncomplete => gExit = "manifest_incomplete"

\* C12 as stated: when the guide segmenter has stopped on a failed check
\* (any SystemExit of the run), the segments output file holds no segment of
\* that run.
C12_FailedCheckDiscardsBatch ==
    (gpc = "exit" /\ gExit # "") => SegmentsOfThisRun = {}

(***************************************************************************)
(* Normalization: reference_normalization.normalize_reference_symbols and  *)
(* scripts/normalize_v6_guides.py.  Strings are sequences of characters.   *)
(***************************************************************************)
\* JSON null / Python None, and a key the segment does not have.
None == <<"None">>
Absent == <<"absent">>

ANCHOR_PREFIXES ==
    << <<"v", "a", "r", "_">>, <<"f", "u", "n", "_">>,
       <<"c", "o", "n", "s", "t", "_">>, <<"t", "y", "p", "e", "_">>,
       <<"k", "w", "_">>, <<"o", "p", "_">>, <<"a", "n", "_">> >>

\* str.rstrip("_")
RECURSIVE rstrip_underscore(_)
rstrip_underscore(str) ==
    IF str # <<>> /\ str[Len(str)] = "_"
       THEN rstrip_underscore(SubSeq(str, 1, Len(str) - 1))
       ELSE str

SYMBOL_TYPES ==
    { rstrip_underscore(ANCHOR_PREFIXES[i]) : i \in DOMAIN ANCHOR_PREFIXES }

\* Mutant: an id without a table prefix gets the type "unknown".
derive_symbol_type_default(anchor_id) ==
    LET hits == { i \in DOMAIN ANCHOR_PREFIXES :
                    anchor_id # None /\ StartsWith(anchor_id, ANCHOR_PREFIXES[i]) }
    IN  IF hits = {} THEN [error |-> "", value |-> <<"u", "n", "k", "n", "o", "w", "n">>]
        ELSE [error |-> "",
              value |-> rstrip_underscore(
                  ANCHOR_PREFIXES[CHOOSE i \in hits : \A j \in hits : i <= j])]

\* derive_symbol_type, lines 19-23: the first prefix of the table the id
\* starts with; None has no startswith.
derive_symbol_type(anchor_id) ==
    IF anchor_id = None THEN [error |-> "AttributeError", value |-> <<>>]
    ELSE LET hits == { i \in DOMAIN ANCHOR_PREFIXES :
                         StartsWith(anchor_id, ANCHOR_PREFIXES[i]) }
         IN  IF hits = {}
                THEN [error |-> "unknown_anchor_prefix", value |-> <<>>]
                ELSE [error |-> "",
                      value |-> rstrip_underscore(
                          ANCHOR_PREFIXES[CHOOSE i \in hits :
                                             \A j \in hits : i <= j])]

\* dict.get(key) and dict.get(key, "")
Get(segment, key) == IF segment[key] = Absent THEN None ELSE segment[key]
GetOrEmpty(segment, key) == IF segment[key] = Absent THEN <<>> ELSE segment[key]

\* str() of a value inside an f-string.
Fmt(value) == IF value = None THEN <<"N", "o", "n", "e">> ELSE value

\* Mutant: only None counts as missing.
IsMissing_none_only(value) == value = None

\* Lines 82 / 63: record.get(key) in (None, "")
IsMissing(value) == value = None \/ value = <<>>

ReferenceRequired ==
    {"reference_symbol_id", "anchor_id", "symbol_name", "symbol_type",
     "canonical_url", "pine_version", "segment_order", "raw_html", "run_id",
     "source_artifact_id", "segment_id"}

GuideRequired ==
    {"guide_section_id", "section_title", "section_path", "canonical_url",
     "pine_version", "segment_order", "raw_html", "run_id",
     "source_artifact_id", "segment_id"}

\* reference_normalization.py, lines 46-67 (the fields set to "" are left out).
ReferenceRecord(segment, symbol_type) ==
    [reference_symbol_id |->
         Fmt(Get(segment, "source_artifact_id")) \o <<":">>
             \o Fmt(Get(segment, "anchor_id")),
     anchor_id |-> Get(segment, "anchor_id"),
     symbol_name |-> GetOrEmpty(segment, "symbol_name"),
     symbol_type |-> symbol_type,
     canonical_url |-> Get(segment, "canonical_url"),
     pine_version |-> <<"v", "6">>,
     segment_order |-> Get(segment, "segment_order"),
     raw_html |-> Get(segment, "raw_html"),
     run_id |-> Get(segment, "run_id"),
     source_artifact_id |-> Get(segment, "source_artifact_id"),
     segment_id |-> Get(segment, "segment_id")]

\* normalize_v6_guides.py, lines 27-48.
GuideRecord(segment) ==
    [guide_section_id |-> segment.segment_id,
     section_title |-> GetOrEmpty(segment, "section_title"),
     section_path |-> GetOrEmpty(segment, "section_path"),
     canonical_url |-> Get(segment, "canonical_url"),
     pine_version |-> <<"v", "6">>,
     segment_order |-> Get(segment, "segment_order"),
     raw_html |-> Get(segment, "raw_html"),
     run_id |-> Get(segment, "run_id"),
     source_artifact_id |-> Get(segment, "source_artifact_id"),
     segment_id |-> Get(segment, "segment_id")]

\* The identifier of a record of either store.
RecordId(record) ==
    IF "reference_symbol_id" \in DOMAIN record THEN record.reference_symbol_id
    ELSE record.guide_section_id

\* What one line of the segments file comes to: an exception, or the record
\* to write.  seen is seen_ids.
NormalizeLine(kind, segment, seen) ==
    IF kind = "reference"
       THEN LET symbol_type == derive_symbol_type(Get(segment, "anchor_id"))
                record == ReferenceRecord(segment, symbol_type.value)
            IN  IF symbol_type.error # ""
                   THEN [error |-> symbol_type.error, record |-> <<>>]
                ELSE IF \E key \in ReferenceRequired : IsMissing(record[key])
                   THEN [error |-> "missing_required", record |-> <<>>]
                ELSE IF record.symbol_type \notin SYMBOL_TYPES
                   THEN [error |-> "invalid_symbol_type", record |-> <<>>]
                ELSE IF record.reference_symbol_id \in seen
                   THEN [error |-> "duplicate_reference_symbol_id", record |-> <<>>]
                ELSE [error |-> "", record |-> record]
       ELSE IF segment.segment_id = Absent
               THEN [error |-> "KeyError", record |-> <<>>]
            ELSE LET record == GuideRecord(segment)
                 IN  IF \E key \in GuideRequired : IsMissing(record[key])
                        THEN [error |-> "missing_required", record |-> <<>>]
                     ELSE IF record.guide_section_id \in seen
                        THEN [error |-> "duplicate_guide_section_id", record |-> <<>>]
                     ELSE [error |-> "", record |-> record]

\* The anchor ids tried: one per table prefix, and ids without one.
AnchorIds ==
    { <<"v", "a", "r", "_", "x">>, <<"f", "u", "n", "_", "x">>,
      <<"c", "o", "n", "s", "t", "_", "x">>, <<"t", "y", "p", "e", "_", "x">>,
      <<"k", "w", "_", "x">>, <<"o", "p", "_", "x">>, <<"a", "n", "_", "x">>,
      <<"x">>, <<"v", "a", "r">>, <<"_", "v", "a", "r", "_", "x">> }

SegmentFields ==
    {"anchor_id", "source_artifact_id", "symbol_name", "canonical_url",
     "segment_order", "raw_html", "run_id", "segment_id", "section_title",
     "section_path"}

\* A line of a segments file with every field set.
GoodLine(anchor_id, segment_id) ==
    [anchor_id |-> anchor_id, source_artifact_id |-> <<"a">>,
     symbol_name |-> <<"n">>, canonical_url |-> <<"u">>,
     segment_order |-> <<"1">>, raw_html |-> <<"h">>, run_id |-> <<"r">>,
     segment_id |-> segment_id, section_title |-> <<"t">>,
     section_path |-> <<"p">>]

\* The lines tried: complete ones, and ones with a single field null, empty
\* or (for the fields read with a default or by subscript) without its key.
SegmentLines ==
    { GoodLine(anchor, <<"s", "1">>) : anchor \in AnchorIds }
    \cup { GoodLine(<<"v", "a", "r", "_", "x">>, <<"s", "2">>) }
    \cup { [GoodLine(<<"v", "a", "r", "_", "x">>, <<"s", "1">>) EXCEPT ![f] = d] :
             f \in SegmentFields, d \in {None, <<>>} }
    \cup { [GoodLine(<<"v", "a", "r", "_", "x">>, <<"s", "1">>) EXCEPT ![f] = Absent] :
             f \in {"anchor_id", "symbol_name", "segment_id"} }

\* What an output file holds before the first run: nothing, or the record
\* of an earlier normalization.
EarlierStore(kind) ==
    IF kind = "reference"
       THEN << ReferenceRecord(GoodLine(<<"v", "a", "r", "_", "x">>, <<"s", "1">>),
                               <<"v", "a", "r">>) >>
       ELSE << GuideRecord(GoodLine(<<"v", "a", "r", "_", "x">>, <<"s", "1">>)) >>

InitNorm ==
    /\ npc = "start"
    /\ entry \in {"reference", "guide"}
    /\ source \in SeqsUpTo(SegmentLines, MaxBatch)
    /\ fallback_pages = <<>>
    /\ raw_exists = FALSE
    /\ store \in {<<>>, EarlierStore(entry)}
    /\ pages_store = <<>>
    /\ seen_ids = {}
    /\ nIdx = 0
    /\ written = 0
    /\ nExit = ""
    /\ nruns = 0
    /\ storeBefore = <<>>
    /\ pagesBefore = <<>>
    /\ AcqAtRest
    /\ RenderAtRest
    /\ GuidesAtRest
    /\ RawAtRest
    /\ ToolsAtRest

\* Lines 29-36 / 13-23: the output_exists guard, then both files are opened.
NormStart ==
    /\ npc = "start"
    /\ entry \in {"reference", "guide"}
    /\ nruns' = nruns + 1
    /\ storeBefore' = store
    /\ pagesBefore' = pages_store
    /\ seen_ids' = {}
    /\ nIdx' = 0
    /\ written' = 0
    /\ IF store # <<>>
          THEN nExit' = "output_exists" /\ npc' = "raised"
          ELSE nExit' = "" /\ npc' = "loop"
    /\ UNCHANGED <<entry, source, fallback_pages, raw_exists, store, pages_store>>
    /\ UNCHANGED <<acqVars, renderVars, guideVars, rawVars, toolVars>>

\* Lines 41-98 / 23-75: one line of the segments file: it raises, or its
\* record is written to the output file.
NormLine ==
    /\ npc = "loop"
    /\ nIdx < Len(source)
    /\ nIdx' = nIdx + 1
    /\ LET line == NormalizeLine(entry, source[nIdx + 1], seen_ids)
       IN  IF line.error # ""
              THEN /\ nExit' = line.error
                   /\ npc' = "raised"
                   /\ UNCHANGED <<store, seen_ids, written>>
              ELSE /\ seen_ids' = seen_ids \cup {RecordId(line.record)}
                   /\ store' = Append(store, line.record)
                   /\ written' = written + 1
                   /\ UNCHANGED <<npc, nExit>>
    /\ UNCHANGED <<entry, source, fallback_pages, raw_exists, pages_store, nruns,
                   storeBefore, pagesBefore>>
    /\ UNCHANGED <<acqVars, renderVars, guideVars, rawVars, toolVars>>

\* Line 100 / 77-79: the source is exhausted, the run returns.
NormEnd ==
    /\ npc = "loop"
    /\ nIdx = Len(source)
    /\ npc' = "done"
    /\ UNCHANGED <<entry, source, fallback_pages, raw_exists, store, pages_store,
                   seen_ids, nIdx, written, nExit, nruns, storeBefore, pagesBefore>>
    /\ UNCHANGED <<acqVars, renderVars, guideVars, rawVars, toolVars>>

\* The script is run again on the same files.
NormRerun ==
    /\ npc \in {"done", "raised"}
    /\ nruns < MaxRuns
    /\ npc' = "start"
    /\ UNCHANGED <<entry, source, fallback_pages, raw_exists, store, pages_store,
                   seen_ids, nIdx, written, nExit, nruns, storeBefore, pagesBefore>>
    /\ UNCHANGED <<acqVars, renderVars, guideVars, rawVars, toolVars>>

(***************************************************************************)
(* normalization.normalize_guides (v5).  The fields BeautifulSoup derives  *)
(* from raw_html (section_level, parent_section_id) are left out: no       *)
(* identifier depends on them.                                             *)
(***************************************************************************)
\* The canonical URLs tried, in sorted order.
V5Urls == <<"u1", "u2", "u3">>

V5Line(doc_type, pine_version, url, segment_id, segment_order) ==
    [doc_type |-> doc_type, pine_version |-> pine_version,
     source_artifact_id |-> "a", canonical_url |-> url,
     segment_id |-> segment_id, segment_order |-> segment_order,
     raw_html |-> "h"]

V5Lines ==
    { V5Line("guide", "v5", url, sid, ord) :
        url \in {"u1", "u2"}, sid \in {<<"a", "1">>, <<"a", "2">>}, ord \in 1..2 }
    \cup { V5Line("reference", "v5", "u1", <<"a", "1">>, 1),
           V5Line("guide", "v6", "u1", <<"a", "1">>, 1) }

\* The guide_no_h2 lines of the segmentation run: (canonical_url,
\* source_artifact_id).
FallbackLines == { <<"u1", "a">>, <<"u3", "a3">> }

\* load_segments, lines 64-86: the guide lines, or non_v5_segment_detected.
load_segments(lines) ==
    LET guides == SelectSeq(lines, LAMBDA item : item.doc_type = "guide")
    IN  IF \E k \in 1..Len(guides) : guides[k].pine_version # "v5"
           THEN [error |-> "non_v5_segment_detected", segments |-> <<>>]
           ELSE [error |-> "", segments |-> guides]

\* The canonical URLs of the segments, each once, in order of first
\* appearance (the keys of segments_by_url).
RECURSIVE UrlsOf(_)
UrlsOf(segments) ==
    IF segments = <<>> THEN <<>>
    ELSE LET front == UrlsOf(SubSeq(segments, 1, Len(segments) - 1))
             url == segments[Len(segments)].canonical_url
         IN  IF \E k \in 1..Len(front) : front[k] = url THEN front
             ELSE Append(front, url)

GuidePage(segment) ==
    [guide_page_id |-> sha256_hex(segment.canonical_url),
     canonical_url |-> segment.canonical_url, pine_version |-> "v5",
     source_artifact_id |-> segment.source_artifact_id, page_order |-> 1]

\* build_pages, lines 153-169: one page per URL, from its first segment,
\* sorted by URL.
RECURSIVE build_pages_from(_, _)
build_pages_from(segments, k) ==
    IF k > Len(V5Urls) THEN <<>>
    ELSE LET of_url == SelectSeq(segments,
                                 LAMBDA seg : seg.canonical_url = V5Urls[k])
         IN  (IF of_url = <<>> THEN <<>> ELSE <<GuidePage(of_url[1])>>)
                 \o build_pages_from(segments, k + 1)

build_pages(segments) == build_pages_from(segments, 1)

GuideSection(segment) ==
    [guide_section_id |-> sha256_hex(segment.segment_id),
     guide_page_id |-> sha256_hex(segment.canonical_url),
     pine_version |-> "v5", section_order |-> segment.segment_order,
     source_artifact_id |-> segment.source_artifact_id,
     segment_id |-> segment.segment_id,
     segment_order |-> segment.segment_order, raw_html |-> segment.raw_html]

\* Lines 182-183: the segments of one page, sorted by segment_order (the
\* sort is stable).
RECURSIVE SortedByOrder(_, _)
SortedByOrder(page_segments, ord) ==
    IF ord > 2 THEN <<>>
    ELSE SelectSeq(page_segments, LAMBDA seg : seg.segment_order = ord)
             \o SortedByOrder(page_segments, ord + 1)

RECURSIVE SectionsOfPages(_, _, _)
SectionsOfPages(segments, urls, k) ==
    IF k > Len(urls) THEN <<>>
    ELSE LET page_segments ==
                 SelectSeq(segments, LAMBDA seg : seg.canonical_url = urls[k])
             sorted == SortedByOrder(page_segments, 1)
         IN  [j \in 1..Len(sorted) |-> GuideSection(sorted[j])]
                 \o SectionsOfPages(segments, urls, k + 1)

\* Lines 225-255: a fallback section for every guide_no_h2 line whose page
\* has no segment.
FallbackSection(fallback) ==
    [guide_section_id |-> sha256_hex(<<fallback[2], "fallback">>),
     guide_page_id |-> sha256_hex(fallback[1]),
     pine_version |-> "v5", section_order |-> 1,
     source_artifact_id |-> fallback[2],
     segment_id |-> <<fallback[2], "fallback">>,
     segment_order |-> 1, raw_html |-> "main"]

\* build_sections, lines 172-257.
build_sections(segments, fallbacks, raw_on_disk) ==
    LET urls == UrlsOf(segments)
        needed == SelectSeq(fallbacks,
                      LAMBDA fb : \A k \in 1..Len(urls) : urls[k] # fb[1])
    IN  IF needed # <<>> /\ ~raw_on_disk
           THEN [error |-> "fallback_raw_missing", sections |-> <<>>]
           ELSE [error |-> "",
                 sections |-> SectionsOfPages(segments, urls, 1)
                     \o [j \in 1..Len(needed) |-> FallbackSection(needed[j])]]

\* load_existing_ids, lines 260-272.
load_existing_ids(lines, field) == { lines[k][field] : k \in 1..Len(lines) }

\* Mutant: records are appended whether or not their id is in the store.
NotInStore_unchecked(id, existing) == TRUE

\* Lines 305 and 312: the filter on the ids the store already holds.
NotInStore(id, existing) == id \notin existing

InitV5 ==
    /\ npc = "start"
    /\ entry = "v5"
    /\ source \in SeqsUpTo(V5Lines, MaxBatch)
    /\ fallback_pages \in SeqsUpTo(FallbackLines, MaxBatch)
    /\ raw_exists \in BOOLEAN
    /\ store \in {<<>>, <<GuideSection(V5Line("guide", "v5", "u1", <<"a", "1">>, 1))>>}
    /\ pages_store \in {<<>>, <<GuidePage(V5Line("guide", "v5", "u1", <<"a", "1">>, 1))>>}
    /\ seen_ids = {}
    /\ nIdx = 0
    /\ written = 0
    /\ nExit = ""
    /\ nruns = 0
    /\ storeBefore = <<>>
    /\ pagesBefore = <<>>
    /\ AcqAtRest
    /\ RenderAtRest
    /\ GuidesAtRest
    /\ RawAtRest
    /\ ToolsAtRest

\* normalize_guides, lines 286-321: everything is built in memory, then the
\* pages and the sections the stores do not hold yet are appended.
NormalizeGuidesV5 ==
    /\ npc = "start"
    /\ entry = "v5"
    /\ nruns' = nruns + 1
    /\ storeBefore' = store
    /\ pagesBefore' = pages_store
    /\ nIdx' = Len(source)
    /\ LET loaded == load_segments(source)
           built == build_sections(loaded.segments, fallback_pages, raw_exists)
           pages == build_pages(loaded.segments)
           existing_pages == load_existing_ids(pages_store, "guide_page_id")
           existing_sections == load_existing_ids(store, "guide_section_id")
           new_pages == SelectSeq(pages,
               LAMBDA page : NotInStore(page.guide_page_id, existing_pages))
           new_sections == SelectSeq(built.sections,
               LAMBDA section : NotInStore(section.guide_section_id,
                                           existing_sections))
       IN  IF loaded.error # ""
              THEN /\ nExit' = loaded.error
                   /\ npc' = "raised"
                   /\ UNCHANGED <<store, pages_store, written>>
           ELSE IF built.error # ""
              THEN /\ nExit' = built.error
                   /\ npc' = "raised"
                   /\ UNCHANGED <<store, pages_store, written>>
           ELSE /\ nExit' = ""
                /\ npc' = "done"
                /\ pages_store' = pages_store \o new_pages
                /\ store' = store \o new_sections
                /\ written' = Len(new_sections)
    /\ UNCHANGED <<entry, source, fallback_pages, raw_exists, seen_ids>>
    /\ UNCHANGED <<acqVars, renderVars, guideVars, rawVars, toolVars>>

NextNorm ==
    \/ NormStart
    \/ NormLine
    \/ NormEnd
    \/ NormRerun
    \/ NormalizeGuidesV5

InitNormalization == InitNorm \/ InitV5

SpecNorm == InitNormalization /\ [][NextNorm]_vars

\* The records the current (or last) run added to the output file.
WrittenByRun == SubSeq(store, Len(storeBefore) + 1, Len(store))

\* The line of the segments file a v6 run stopped on.
FailingLine == source[nIdx]

RunEnded == npc \in {"done", "raised"} /\ nruns >= 1

\* C13 as stated: a v6 normalization run that stops on a duplicate
\* reference_symbol_id or guide_section_id leaves the output file as it was
\* before the run.
C13_DuplicateLeavesStoreUnchanged ==
    (npc = "raised"
        /\ nExit \in {"duplicate_reference_symbol_id",
                      "duplicate_guide_section_id"}) =>
        store = storeBefore

\* C14 as stated: for every entry point, a run started on a non-empty output
\* file ends with output_exists, has read no line of the segments file, and
\* leaves the output file unchanged.
C14_NonEmptyOutputRefused ==
    (RunEnded /\ storeBefore # <<>>) =>
        /\ nExit = "output_exists"
        /\ nIdx = 0
        /\ store = storeBefore

\* C15 as stated: no normalized store holds two records with the same
\* identifier, and a run only appends: the records a store held when the run
\* started are still its first records.
C15_StoreIdsUnique ==
    /\ \A j, k \in 1..Len(store) :
          j # k => RecordId(store[j]) # RecordId(store[k])
    /\ \A j, k \in 1..Len(pages_store) :
          j # k => pages_store[j].guide_page_id # pages_store[k].guide_page_id
    /\ nruns >= 1 =>
          /\ Len(store) >= Len(storeBefore)
          /\ SubSeq(store, 1, Len(storeBefore)) = storeBefore
          /\ Len(pages_store) >= Len(pagesBefore)
          /\ SubSeq(pages_store, 1, Len(pagesBefore)) = pagesBefore

\* The fields of a segment line a required field of the record is read from.
RequiredSourceFields(kind) ==
    IF kind = "reference"
       THEN {"anchor_id", "symbol_name", "canonical_url", "segment_order",
             "raw_html", "run_id", "source_artifact_id", "segment_id"}
       ELSE {"section_title", "section_path", "canonical_url", "segment_order",
             "raw_html", "run_id", "source_artifact_id", "segment_id"}

\* C16 as stated: every record a v6 run wrote has a value other than null
\* and "" in each required field, and a run that stopped on a line with a
\* null, empty or absent required field stopped with missing_required.
C16_NoMissingRequiredField ==
    entry \in {"reference", "guide"} =>
        /\ \A k \in 1..Len(WrittenByRun) :
              \A key \in (IF entry = "reference" THEN ReferenceRequired
                          ELSE GuideRequired) :
                  /\ WrittenByRun[k][key] # None
                  /\ WrittenByRun[k][key] # <<>>
        /\ (npc = "raised" /\ nIdx >= 1
               /\ \E f \in RequiredSourceFields(entry) :
                     FailingLine[f] \in {None, <<>>, Absent}) =>
              nExit = "missing_required"

\* The fixed prefix table, written out.
PrefixTable ==
    { << <<"v", "a", "r", "_">>, <<"v", "a", "r">> >>,
      << <<"f", "u", "n", "_">>, <<"f", "u", "n">> >>,
      << <<"c", "o", "n", "s", "t", "_">>, <<"c", "o", "n", "s", "t">> >>,
      << <<"t", "y", "p", "e", "_">>, <<"t", "y", "p", "e">> >>,
      << <<"k", "w", "_">>, <<"k", "w">> >>,
      << <<"o", "p", "_">>, <<"o", "p">> >>,
      << <<"a", "n", "_">>, <<"a", "n">> >> }

HasTablePrefix(anchor_id) ==
    \E row \in PrefixTable :
        /\ Len(anchor_id) >= Len(row[1])
        /\ SubSeq(anchor_id, 1, Len(row[1])) = row[1]

\* C17: every record of the reference store has the symbol_type the prefix
\* table gives for the prefix of its anchor_id, and a run that stopped on a
\* line whose anchor_id is a string without a table prefix stopped with
\* unknown_anchor_prefix, that line's record not being written.
C17_SymbolTypeFromPrefix ==
    entry = "reference" =>
        /\ \A k \in 1..Len(store) :
              \E row \in PrefixTable :
                  /\ Len(store[k].anchor_id) >= Len(row[1])
                  /\ SubSeq(store[k].anchor_id, 1, Len(row[1])) = row[1]
                  /\ store[k].symbol_type = row[2]
        /\ (npc = "raised" /\ nIdx >= 1
               /\ FailingLine.anchor_id \notin {None, Absent}
               /\ ~HasTablePrefix(FailingLine.anchor_id)) =>
              /\ nExit = "unknown_anchor_prefix"
              /\ Len(WrittenByRun) = nIdx - 1

\* A run wrote a "const" record and then stopped on an id without a prefix.
C17_Witness ==
    /\ entry = "reference"
    /\ npc = "raised"
    /\ nExit = "unknown_anchor_prefix"
    /\ nIdx = 2
    /\ Len(store) = 1
    /\ store[1].symbol_type = <<"c", "o", "n", "s", "t">>
    /\ FailingLine.anchor_id = <<"v", "a", "r">>

(***************************************************************************)
(* segmentation.py: the segmenters of raw artifacts, and segment_content.  *)
(***************************************************************************)

\* Artifact, lines 13-18, with the parsed content of the file at raw_path.
Artifact(k, doc_type, doc) ==
    [source_artifact_id |-> <<"a", k>>, canonical_url |-> k,
     doc_type |-> doc_type, doc |-> doc]

\* The ids elements of a raw reference page carry; "toc" has no table prefix.
RawAnchorIds == {"var_x", "fun_y", "toc"}

\* A raw reference page: whether it has main#tv-content / main.tv-content,
\* and the id attributes of the container's elements other than tv-content,
\* in document order.
RawReferenceDocs ==
    { [container |-> FALSE, ids |-> <<>>] }
    \cup { [container |-> TRUE, ids |-> ids] :
             ids \in SeqsUpTo(RawAnchorIds \ {"toc"}, MaxRawAnchors) }
    \cup { [container |-> TRUE, ids |-> <<"toc", "var_x">>],
           [container |-> TRUE, ids |-> <<"toc", "toc">>] }

\* A raw guide page: whether it has a container (main.content,
\* main.main-pane or body), the number of h2 headings in it, and whether
\* meaningful text precedes the first h2.
RawGuideDocs ==
    { [container |-> FALSE, h2 |-> 0, lead |-> FALSE] }
    \cup { [container |-> TRUE, h2 |-> n, lead |-> l] :
             n \in 0..MaxH2, l \in BOOLEAN }

\* Segment, lines 22-34.
Segment(artifact, key, segment_order, anchor_id) ==
    [source_artifact_id |-> artifact.source_artifact_id,
     doc_type |-> artifact.doc_type,
     segment_id |-> <<artifact.source_artifact_id, key>>,
     segment_order |-> segment_order,
     anchor_id |-> anchor_id]

\* Failure, lines 37-43.
Failure(artifact, reason) ==
    [source_artifact_id |-> artifact.source_artifact_id,
     doc_type |-> artifact.doc_type, reason |-> reason]

\* Mutant: a page without h2 raises after its lead text became a segment
\* of the caller's list.
parse_guide_segments_partial(artifact) ==
    LET doc == artifact.doc
        n == doc.h2 + (IF doc.lead THEN 1 ELSE 0)
    IN  IF ~doc.container
           THEN [error |-> "guide_container_missing", segments |-> <<>>]
        ELSE IF doc.h2 = 0
           THEN [error |-> "guide_no_h2",
                 segments |-> [k \in 1..n |-> Segment(artifact, k, k, "")]]
        ELSE [error |-> "",
              segments |-> [k \in 1..n |-> Segment(artifact, k, k, "")]]

\* parse_guide_segments, lines 105-170: an optional lead segment, then one
\* segment per h2, numbered from 1.
parse_guide_segments(artifact) ==
    LET doc == artifact.doc
        n == doc.h2 + (IF doc.lead THEN 1 ELSE 0)
    IN  IF ~doc.container
           THEN [error |-> "guide_container_missing", segments |-> <<>>]
        ELSE IF doc.h2 = 0
           THEN [error |-> "guide_no_h2", segments |-> <<>>]
        ELSE [error |-> "",
              segments |-> [k \in 1..n |-> Segment(artifact, k, k, "")]]

\* parse_reference_segments, lines 190-239: one segment per element with an
\* id, keyed by that id.
parse_reference_segments(artifact) ==
    LET doc == artifact.doc
    IN  IF ~doc.container
           THEN [error |-> "reference_container_missing", segments |-> <<>>]
        ELSE IF doc.ids = <<>>
           THEN [error |-> "reference_no_anchors", segments |-> <<>>]
        ELSE [error |-> "",
              segments |-> [k \in 1..Len(doc.ids) |->
                              Segment(artifact, doc.ids[k], k, doc.ids[k])]]

\* load_artifacts, lines 58-76: the artifacts under raw_root, sorted by
\* canonical_url.
Artifacts ==
    LET on_disk == { <<"reference", d>> : d \in RawReferenceDocs }
                       \cup { <<"guide", d>> : d \in RawGuideDocs }
                       \cup { <<"other", [container |-> FALSE]>> }
    IN  { [k \in 1..Len(made) |-> Artifact(k, made[k][1], made[k][2])] :
            made \in SeqsUpTo(on_disk, MaxArtifacts) \ {<<>>} }

InitRaw ==
    /\ spc = "loop"
    /\ artifacts \in Artifacts
    /\ aIdx = 0
    /\ rawSegments = <<>>
    /\ rawFailures = <<>>
    /\ AcqAtRest
    /\ RenderAtRest
    /\ GuidesAtRest
    /\ NormAtRest
    /\ ToolsAtRest

\* segment_artifacts, lines 247-274: one turn of the loop.
SegmentArtifact ==
    /\ spc = "loop"
    /\ aIdx < Len(artifacts)
    /\ LET artifact == artifacts[aIdx + 1]
           parsed == IF artifact.doc_type = "guide"
                        THEN parse_guide_segments(artifact)
                     ELSE IF artifact.doc_type = "reference"
                        THEN parse_reference_segments(artifact)
                     ELSE [error |-> "unknown_doc_type", segments |-> <<>>]
           stop == parsed.error # "" /\ artifact.doc_type = "reference"
       IN  /\ aIdx' = aIdx + 1
           /\ rawSegments' = rawSegments \o parsed.segments
           /\ rawFailures' = IF parsed.error # ""
                                THEN Append(rawFailures,
                                            Failure(artifact, parsed.error))
                                ELSE rawFailures
           /\ spc' = IF stop \/ aIdx + 1 = Len(artifacts)
                        THEN "returned" ELSE "loop"
    /\ UNCHANGED artifacts
    /\ UNCHANGED <<acqVars, renderVars, guideVars, normVars, toolVars>>

\* segment_content.main, lines 52-68: both files are written, then the exit.
SegmentContentExit ==
    /\ spc = "returned"
    /\ spc' = IF \E k \in 1..Len(rawFailures) :
                    rawFailures[k].doc_type = "reference"
                 THEN "reference_parsing_failed"
                 ELSE "written"
    /\ UNCHANGED <<artifacts, aIdx, rawSegments, rawFailures>>
    /\ UNCHANGED <<acqVars, renderVars, guideVars, normVars, toolVars>>

\* The three segmenters, each started on its own inputs.
InitSegmenters == InitSegment \/ InitRaw \/ InitGuides

NextSegmenters ==
    \/ SegmentReference
    \/ SegmentArtifact
    \/ SegmentContentExit
    \/ GuideStart
    \/ ManifestCheck
    \/ WriteSegment
    \/ GuideFinalCheck

SpecSegmenters == InitSegmenters /\ [][NextSegmenters]_vars

\* The ids of a raw reference page hold one id twice.
RawDuplicateIds(doc) ==
    \E j, k \in 1..Len(doc.ids) : j < k /\ doc.ids[j] = doc.ids[k]

\* C18 as stated: both anchor-based segmenters, run on a document with two
\* anchors of the same id, fail with duplicate_anchor_id and yield no
\* segment of that document.
C18_DuplicateAnchorFails ==
    /\ (rpc = "exit" /\ manifestFile # <<>>
           /\ manifestFile.status = "complete" /\ html.container
           /\ HasDuplicateAnchor(html.anchors)) =>
          /\ mainExit = "duplicate_anchor_id"
          /\ segmentsFile = <<>>
    /\ \A k \in 1..aIdx :
          (artifacts[k].doc_type = "reference" /\ artifacts[k].doc.container
              /\ RawDuplicateIds(artifacts[k].doc)) =>
             /\ \E f \in 1..Len(rawFailures) :
                   /\ rawFailures[f].source_artifact_id =
                         artifacts[k].source_artifact_id
                   /\ rawFailures[f].reason = "duplicate_anchor_id"
             /\ \A g \in 1..Len(rawSegments) :
                   rawSegments[g].source_artifact_id #
                      artifacts[k].source_artifact_id

\* The segments one raw artifact gave, in output order.
SegmentsOfArtifact(id) ==
    SelectSeq(rawSegments, LAMBDA seg : seg.source_artifact_id = id)

\* C19 as stated: no two segments of one artifact share a segment_id, in the
\* output of the raw segmenters and of the v6 guide segmenter; a guide
\* segment's id is its artifact's identity with its ordinal, the ordinals
\* running 1..n in document order, and a reference segment's id is its
\* artifact's identity with its anchor id.
C19_SegmentIdsNeverCollide ==
    /\ \A j, k \in 1..Len(rawSegments) :
          (j # k /\ rawSegments[j].source_artifact_id =
                       rawSegments[k].source_artifact_id) =>
             rawSegments[j].segment_id # rawSegments[k].segment_id
    /\ \A a \in 1..aIdx :
          LET segs == SegmentsOfArtifact(artifacts[a].source_artifact_id)
          IN  \A k \in 1..Len(segs) :
                 /\ segs[k].segment_order = k
                 /\ segs[k].segment_id =
                       <<segs[k].source_artifact_id,
                         IF segs[k].doc_type = "guide"
                            THEN segs[k].segment_order
                            ELSE segs[k].anchor_id>>
    /\ \A j, k \in SegmentsOfThisRun :
          j # k => out[j].segment_id # out[k].segment_id

(***************************************************************************)
(* The v6 guide pipeline: segment_v6_guides, then normalize_v6_guides on   *)
(* the segments file it left.                                              *)
(***************************************************************************)

\* The record of segment_v6_guides lines 106-117 as normalize_v6_guides
\* reads it back from the segments file.
SegmentRecordLine(segment) ==
    [anchor_id |-> Absent, symbol_name |-> Absent,
     source_artifact_id |-> <<"a">>,
     canonical_url |-> <<segment.segment_id[1]>>,
     segment_order |-> <<ToString(segment.segment_id[2])>>,
     raw_html |-> <<"h">>,
     run_id |-> <<segment.run>>,
     segment_id |-> <<segment.segment_id[1], ":",
                      ToString(segment.segment_id[2])>>,
     section_title |-> <<"t">>, section_path |-> <<"p">>]

\* normalize_v6_guides.main, lines 8-13: the script reads the file the
\* segmenter wrote under the same fixed run id; the output file is new.
NormalizeGuideSegments ==
    /\ gpc \in {"exit", "done"}
    /\ npc = "off"
    /\ npc' = "start"
    /\ entry' = "guide"
    /\ source' = [k \in 1..Len(out) |-> SegmentRecordLine(out[k])]
    /\ UNCHANGED <<fallback_pages, raw_exists, store, pages_store, seen_ids, nIdx,
                   written, nExit, nruns, storeBefore, pagesBefore>>
    /\ UNCHANGED <<acqVars, renderVars, guideVars, rawVars, toolVars>>

NextGuidePipeline ==
    \/ GuideStart
    \/ ManifestCheck
    \/ WriteSegment
    \/ GuideFinalCheck
    \/ NormalizeGuideSegments
    \/ NormStart
    \/ NormLine
    \/ NormEnd

SpecGuidePipeline == InitGuides /\ [][NextGuidePipeline]_vars

\* C20 as stated: when the segmentation run stopped on a check, no record of
\* the normalized store comes from a segment of that run.
C20_NoRecordFromAbortedSegmentation ==
    (gpc = "exit" /\ gExit # "") =>
        \A k \in 1..Len(store) : store[k].run_id # <<"this">>

(***************************************************************************)
(* The drift detector: rendered_reference.drift_severity,                  *)
(* drift_recommended_action, generate_drift_report, drift_report_v6.main.  *)
(***************************************************************************)

Abs(n) == IF n < 0 THEN -n ELSE n

\* drift_severity_strict: |delta| = 10 is still medium.
drift_severity_strict(anchor_count_delta, env_delta) ==
    IF anchor_count_delta = 0 /\ ~env_delta THEN "none"
    ELSE IF anchor_count_delta # 0
        THEN IF Abs(anchor_count_delta) > 10 THEN "high" ELSE "medium"
    ELSE "low"

\* drift_severity, lines 289-296.
drift_severity(anchor_count_delta, env_delta) ==
    IF anchor_count_delta = 0 /\ ~env_delta THEN "none"
    ELSE IF anchor_count_delta # 0
        THEN IF Abs(anchor_count_delta) >= 10 THEN "high" ELSE "medium"
    ELSE "low"

\* drift_recommended_action, lines 299-306.
drift_recommended_action(severity) ==
    IF severity = "none" THEN "ignore"
    ELSE IF severity = "low" THEN "manual_review"
    ELSE IF severity = "medium" THEN "resegment"
    ELSE "block_pipeline"

\* The environment fields compared, lines 261-270.
EnvFields == {"browser_version", "user_agent", "viewport", "locale", "timezone"}

\* dict.get(prefix, 0).
GetCount(prefix_counts, prefix) ==
    IF prefix \in DOMAIN prefix_counts THEN prefix_counts[prefix] ELSE 0

\* anchor_prefix_deltas_both_sides: a delta for every prefix of either
\* manifest.
anchor_prefix_deltas_both_sides(base_counts, cand_counts) ==
    [prefix \in DOMAIN base_counts \cup DOMAIN cand_counts |->
        GetCount(cand_counts, prefix) - GetCount(base_counts, prefix)]

\* Lines 273-275 (drift_report_v6.py lines 42-44): a delta for each prefix
\* the baseline's dict has.
anchor_prefix_deltas(base_counts, cand_counts) ==
    [prefix \in DOMAIN base_counts |->
        GetCount(cand_counts, prefix) - base_counts[prefix]]

\* generate_drift_report, lines 260-297, and the same lines of
\* drift_report_v6.main (33-62).
generate_drift_report(baseline_manifest, candidate_manifest) ==
    LET env_delta == [f \in EnvFields |->
                        <<baseline_manifest[f], candidate_manifest[f]>>]
        env_changed == \E f \in EnvFields : env_delta[f][1] # env_delta[f][2]
        anchor_delta == candidate_manifest.anchor_count_total
                           - baseline_manifest.anchor_count_total
        severity == drift_severity(anchor_delta, env_changed)
    IN  [baseline_run_id |-> baseline_manifest.run_id,
         candidate_run_id |-> candidate_manifest.run_id,
         environment_deltas |-> env_delta,
         artifact_checksum_changed |->
            baseline_manifest.artifact_checksum_sha256
               # candidate_manifest.artifact_checksum_sha256,
         artifact_size_delta |-> candidate_manifest.artifact_size_bytes
                                    - baseline_manifest.artifact_size_bytes,
         anchor_count_delta |-> anchor_delta,
         anchor_prefix_deltas |->
            anchor_prefix_deltas(baseline_manifest.anchor_counts_by_prefix,
                                 candidate_manifest.anchor_counts_by_prefix),
         drift_severity |-> severity,
         recommended_action |-> drift_recommended_action(severity)]

\* The prefixes of the manifests tried: one of the table, and one that only
\* some captures know.
DriftPrefixes == {"var_", "new_"}

PrefixCounts ==
    UNION { [P -> 0..MaxPrefixCount] : P \in SUBSET DriftPrefixes }

\* A manifest.json as read_manifest returns it; changed names the one
\* environment field that differs from the reference environment ("": none).
DriftManifest(run_id, total, prefix_counts, changed, checksum) ==
    [run_id |-> run_id,
     anchor_count_total |-> total,
     anchor_counts_by_prefix |-> prefix_counts,
     browser_version |-> IF changed = "browser_version" THEN "b2" ELSE "b1",
     user_agent |-> IF changed = "user_agent" THEN "ua2" ELSE "ua1",
     viewport |-> IF changed = "viewport" THEN "vp2" ELSE "vp1",
     locale |-> IF changed = "locale" THEN "l2" ELSE "l1",
     timezone |-> IF changed = "timezone" THEN "tz2" ELSE "tz1",
     artifact_checksum_sha256 |-> checksum,
     artifact_size_bytes |-> total]

InitDrift ==
    /\ dpc = "start"
    /\ \E total \in {0, DriftBase}, counts_b \in PrefixCounts :
          baseline = DriftManifest("r1", total, counts_b, "", "c1")
    /\ \E total \in ((DriftBase - MaxDelta)..(DriftBase + MaxDelta)) \cup (0..MaxDelta),
          counts_c \in PrefixCounts, changed \in EnvFields \cup {""} :
          candidate = DriftManifest("r2", total, counts_c, changed,
                                    IF total = DriftBase THEN "c1" ELSE "c2")
    /\ report = <<>>
    /\ BaselineAtRest
    /\ AcqAtRest
    /\ RenderAtRest
    /\ GuidesAtRest
    /\ NormAtRest
    /\ RawAtRest
    /\ ConcAtRest
    /\ QueryAtRest
    /\ UrlAtRest
    /\ RobotsAtRest

\* ingest_reference_v6_rendered.main, lines 318-328: the report on the
\* previous manifest and the run's own.
GenerateDriftReport ==
    /\ dpc = "start"
    /\ report' = generate_drift_report(baseline, candidate)
    /\ dpc' = "reported"
    /\ UNCHANGED <<baseline, candidate>>
    /\ UNCHANGED <<acqVars, renderVars, guideVars, normVars, rawVars, concVars, queryVars, urlVars, robotsVars, baselineVars>>

\* drift_report_v6.main, lines 28-66: the report on two manifests named on
\* the command line.
DriftReportMain ==
    /\ dpc = "start"
    /\ report' = generate_drift_report(baseline, candidate)
    /\ dpc' = "written"
    /\ UNCHANGED <<baseline, candidate>>
    /\ UNCHANGED <<acqVars, renderVars, guideVars, normVars, rawVars, concVars, queryVars, urlVars, robotsVars, baselineVars>>

NextDrift ==
    \/ GenerateDriftReport
    \/ DriftReportMain

SpecDrift == InitDrift /\ [][NextDrift]_vars

\* The total delta and the environment flag of the two manifests.
AnchorDelta == candidate.anchor_count_total - baseline.anchor_count_total

EnvironmentChanged == \E f \in EnvFields : baseline[f] # candidate[f]

\* C21: in every drift report, severity is none iff d = 0 and the
\* environment is unchanged, high iff |d| >= 10, medium iff 0 < |d| < 10,
\* low iff d = 0 and the environment changed; and the action is ignore,
\* manual_review, resegment, block_pipeline for none, low, medium, high.
C21_SeverityPolicy ==
    report # <<>> =>
        LET d == AnchorDelta
            e == EnvironmentChanged
            absd == IF d < 0 THEN 0 - d ELSE d
            sev == report.drift_severity
        IN  /\ report.anchor_count_delta = d
            /\ (sev = "none") <=> (d = 0 /\ ~e)
            /\ (sev = "high") <=> (absd >= 10)
            /\ (sev = "medium") <=> (0 < absd /\ absd < 10)
            /\ (sev = "low") <=> (d = 0 /\ e)
            /\ sev \in {"none", "low", "medium", "high"}
            /\ report.recommended_action =
                  (CASE sev = "none" -> "ignore"
                     [] sev = "low" -> "manual_review"
                     [] sev = "medium" -> "resegment"
                     [] sev = "high" -> "block_pipeline")

\* A drop of twelve anchors (500 -> 488) was reported: high, block_pipeline.
C21_Witness ==
    /\ report # <<>>
    /\ baseline.anchor_count_total = DriftBase
    /\ candidate.anchor_count_total = DriftBase - 12
    /\ report.drift_severity = "high"
    /\ report.recommended_action = "block_pipeline"

\* C22 as stated: the report has a delta for every prefix that occurs in the
\* baseline or in the candidate manifest, candidate minus baseline with a
\* missing prefix counted as zero on either side.
C22_PrefixDeltaBothSides ==
    report # <<>> =>
        LET base_counts == baseline.anchor_counts_by_prefix
            cand_counts == candidate.anchor_counts_by_prefix
        IN  \A prefix \in DOMAIN base_counts \cup DOMAIN cand_counts :
               /\ prefix \in DOMAIN report.anchor_prefix_deltas
               /\ report.anchor_prefix_deltas[prefix] =
                     (IF prefix \in DOMAIN cand_counts
                         THEN cand_counts[prefix] ELSE 0)
                     - (IF prefix \in DOMAIN base_counts
                           THEN base_counts[prefix] ELSE 0)

(***************************************************************************)
(* Further claims on acquire_inventory.                                    *)
(***************************************************************************)

\* C23 as stated: no step of any run removes or rewrites a line of the run
\* log: the lines the file held before the step are its first lines after.
C23_RunLogAppendOnly ==
    [][/\ Len(log') >= Len(log)
       /\ SubSeq(log', 1, Len(log)) = log]_vars

\* The item at idx was demoted with reason http_<status>.
DemotedOnHttpStatus ==
    /\ idx >= 1
    /\ pc \in {"loop", "done"}
    /\ outcome[idx] \in {HttpReason(s) : s \in StatusChoices}

\* C29 as stated: an item is demoted to a FailureRecord with reason
\* http_<status> only after retries + 1 requests, with the retries backoff
\* sleeps between them.
C29_HttpFailureAfterRetries ==
    DemotedOnHttpStatus =>
        /\ Len(callLog) = retries + 1
        /\ Len(sleeps) = retries
        /\ \A k \in 1..Len(sleeps) : sleeps[k] = backoff_seconds * (2 ^ (k - 1))

\* C30 as stated: when a run makes its first request for an item and has
\* requested another item before, it has slept sleep_seconds since that
\* item's last request, whatever that request's outcome.
C30_PolitenessBetweenRequests ==
    [][(pc = "fetch" /\ callLog = <<>> /\ callLog' # <<>> /\ fetched # {})
          => slept]_vars

(***************************************************************************)
(* Further claims on the rendering stabilizer.                             *)
(***************************************************************************)

TerminalStatuses == {"complete", "partial", "failed"}

\* C24: manifest.json of the run exists only when render_reference has
\* returned, with a terminal status that the manifest records; while the
\* stabilisation runs, and after the process was killed or left by an
\* exception during it, the run has no manifest file.
C24_ManifestAfterTerminalStatus ==
    /\ manifestFile # <<>> =>
          /\ rpc \in {"manifest_written", "segment_reference", "segmented",
                      "exit"}
          /\ status \in TerminalStatuses
          /\ manifestFile.status = status
    /\ rpc \in {"goto", "poll", "scroll", "settle", "killed", "raised"} =>
          manifestFile = <<>>

\* The process was killed in the middle of the stabilisation, after a poll
\* that repeated the count of the one before.
C24_Witness ==
    /\ rpc = "killed"
    /\ Len(observed) >= 2
    /\ stable_count >= 1
    /\ status = ""
    /\ manifestFile = <<>>

(***************************************************************************)
(* Output paths: two processes of the pipeline's scripts run side by side  *)
(* on one checkout.  A path is the sequence of its components; a file name *)
(* built with an f-string is given by its parts.                           *)
(***************************************************************************)

\* manifest_path_shared: the manifest sits beside the run directories.
manifest_path_shared(run_id) ==
    <<"raw", "rendered", "v6", "reference", "manifest.json">>

\* ingest_reference_v6_rendered.py, lines 35-96.
manifest_path(run_id) ==
    <<"raw", "rendered", "v6", "reference", run_id, "manifest.json">>

reference_html_path(run_id) ==
    <<"raw", "rendered", "v6", "reference", run_id, "reference.html">>

acquisition_log_path(run_id) ==
    <<"artifacts", "acquisition_runs", "v6", run_id, ".jsonl">>

segment_log_path(run_id) ==
    <<"artifacts", "segmentation_runs", "v6", run_id, ".jsonl">>

segment_output_path(run_id) ==
    <<"artifacts", "segments", "v6", run_id, ".jsonl">>

drift_report_path(baseline_run, candidate_run) ==
    <<"artifacts", "drift_reports", "v6", baseline_run, "__", candidate_run,
      ".json">>

\* acquire_content.build_run_log_path, lines 49-51.
build_run_log_path(run_id) ==
    <<"artifacts", "acquisition_runs", run_id, ".jsonl">>

\* normalize_v6_reference.main, lines 18-20.
NormalizedOutput == <<"normalized", "v6", "reference_symbols.jsonl">>

RECURSIVE JoinChars(_)
JoinChars(chars) ==
    IF chars = <<>> THEN "" ELSE Head(chars) \o JoinChars(Tail(chars))

\* os.path.join of artifact_paths, lines 160-171, under the default output
\* root "raw".
ArtifactFile(path) ==
    <<"raw", path.doc_type, path.pine_version,
      path.file_hash[1] \o JoinChars(path.file_hash[2]),
      IF path.suffix = 0 THEN "" ELSE ToString(path.suffix),
      path.ext>>

\* Run ids are timestamps of one width: their lexicographic order, which is
\* their order in time, is the order of this list.
RunOrder == <<"r0", "r1", "r2", "r3">>

RunRank(run_id) == CHOOSE k \in 1..Len(RunOrder) : RunOrder[k] = run_id

RunIds == {RunOrder[k] : k \in 1..Len(RunOrder)}

\* The run directories that hold a manifest.json.
ManifestRuns(fs) == {r \in RunIds : manifest_path(r) \in fs}

\* base.glob("*/manifest.json"): the directories in any order the file
\* system may list them.
Listings(run_ids) ==
    {s \in [1..Cardinality(run_ids) -> run_ids] :
        \A i, j \in 1..Cardinality(run_ids) : i # j => s[i] # s[j]}

\* sorted(manifests, key=lambda item: item.parent.name), line 118.
SortedByName(listing) ==
    LET names == {listing[k] : k \in 1..Len(listing)}
    IN  [k \in 1..Len(listing) |->
           CHOOSE r \in names :
              Cardinality({x \in names : RunRank(x) < RunRank(r)}) = k - 1]

\* Lines 119-122: the entry before the first one named current_run_id, when
\* that one is not the first ("none": None).
EntryBefore(current_run_id, ordered) ==
    LET hits == {at \in 2..Len(ordered) : ordered[at] = current_run_id}
    IN  IF hits = {} THEN "none"
        ELSE ordered[(CHOOSE at \in hits : \A j \in hits : at <= j) - 1]

\* Mutant: the listing is walked in the order glob gave it.
previous_manifest_unsorted(current_run_id, listing) ==
    IF Len(listing) < 2 THEN "none" ELSE EntryBefore(current_run_id, listing)

\* previous_manifest, lines 113-122, on the listing glob returned.
previous_manifest(current_run_id, listing) ==
    IF Len(listing) < 2 THEN "none"
    ELSE EntryBefore(current_run_id, SortedByName(listing))

Procs == 1..NProcs

\* What a process runs: ingest_reference_v6_rendered.main, acquire_content
\* on a one-item inventory, or normalize_v6_reference.main (there run_id is
\* the run whose segments are normalized).
RunChoices ==
    { [kind |-> "reference", run_id |-> r, item |-> 0] : r \in {"r1", "r2"} }
    \cup { [kind |-> "acquire", run_id |-> r, item |-> i] :
             r \in {"r1", "r2"}, i \in 1..2 }
    \cup { [kind |-> "normalize", run_id |-> r, item |-> 0] : r \in {"r1", "r2"} }

FirstPosition(kind) ==
    IF kind = "reference" THEN "html"
    ELSE IF kind = "acquire" THEN "log" ELSE "guard"

InitConc ==
    /\ cruns \in [Procs -> RunChoices]
    /\ cpos = [q \in Procs |-> FirstPosition(cruns[q].kind)]
    /\ ctarget = [q \in Procs |-> <<>>]
    /\ cfiles \in {{}, {manifest_path("r0")}}
    /\ cwrites = [q \in Procs |-> {}]
    /\ DriftAtRest
    /\ QueryAtRest
    /\ UrlAtRest
    /\ RobotsAtRest
    /\ BaselineAtRest
    /\ AcqAtRest
    /\ RenderAtRest
    /\ GuidesAtRest
    /\ NormAtRest
    /\ RawAtRest

\* Process q opens path for writing and goes on to position next.
Opens(q, path, next) ==
    /\ cfiles' = cfiles \cup {path}
    /\ cwrites' = [cwrites EXCEPT ![q] = @ \cup {path}]
    /\ cpos' = [cpos EXCEPT ![q] = next]

\* ingest_reference_v6_rendered.main, lines 300-337, file by file:
\* reference.html, manifest.json and the acquisition log (render_and_manifest),
\* the segments file and the segmentation log (segment_reference; the log
\* alone when a QC check fails), the drift report when previous_manifest,
\* called once after segment_reference returns, finds a baseline.
ReferenceWrite ==
    /\ \E q \in Procs :
          LET run_id == cruns[q].run_id
          IN  /\ cruns[q].kind = "reference"
              /\ \/ /\ cpos[q] = "html"
                    /\ Opens(q, reference_html_path(run_id), "manifest")
                    /\ UNCHANGED ctarget
                 \/ /\ cpos[q] = "manifest"
                    /\ Opens(q, manifest_path(run_id), "acq_log")
                    /\ UNCHANGED ctarget
                 \/ /\ cpos[q] = "acq_log"
                    /\ \E next \in {"segments", "qc_failed", "done"} :
                          Opens(q, acquisition_log_path(run_id), next)
                    /\ UNCHANGED ctarget
                 \/ /\ cpos[q] = "qc_failed"
                    /\ Opens(q, segment_log_path(run_id), "done")
                    /\ UNCHANGED ctarget
                 \/ /\ cpos[q] = "segments"
                    /\ Opens(q, segment_output_path(run_id), "segment_log")
                    /\ UNCHANGED ctarget
                 \/ /\ cpos[q] = "segment_log"
                    /\ \E listing \in Listings(ManifestRuns(cfiles)) :
                          LET found == previous_manifest(run_id, listing)
                          IN  /\ Opens(q, segment_log_path(run_id),
                                       IF found = "none" THEN "done" ELSE "drift")
                              /\ ctarget' = [ctarget EXCEPT ![q] = <<found>>]
                 \/ /\ cpos[q] = "drift"
                    /\ Opens(q, drift_report_path(ctarget[q][1], run_id), "done")
                    /\ UNCHANGED ctarget
    /\ UNCHANGED cruns
    /\ UNCHANGED <<acqVars, renderVars, guideVars, normVars, rawVars, driftVars, queryVars, urlVars, robotsVars, baselineVars>>

\* acquire_inventory, line 239: the run log is opened.
AcquireOpenLog ==
    /\ \E q \in Procs :
          /\ cruns[q].kind = "acquire"
          /\ cpos[q] = "log"
          /\ Opens(q, build_run_log_path(cruns[q].run_id), "check")
    /\ UNCHANGED <<cruns, ctarget>>
    /\ UNCHANGED <<acqVars, renderVars, guideVars, normVars, rawVars, driftVars, queryVars, urlVars, robotsVars, baselineVars>>

\* Lines 256-260: the item is skipped when its artifact and sidecar are on
\* disk and the checksum matches (intact: a file another process is still
\* writing need not match), and fetched otherwise.
AcquireCheck ==
    /\ \E q \in Procs, intact \in BOOLEAN :
          LET base == artifact_paths(InventoryItem(cruns[q].item, "guide"), 0)
          IN  /\ cruns[q].kind = "acquire"
              /\ cpos[q] = "check"
              /\ cpos' = [cpos EXCEPT ![q] =
                            IF /\ ArtifactFile(base[1]) \in cfiles
                               /\ ArtifactFile(base[2]) \in cfiles
                               /\ intact
                               THEN "done" ELSE "fetch"]
    /\ UNCHANGED <<cruns, ctarget, cfiles, cwrites>>
    /\ UNCHANGED <<acqVars, renderVars, guideVars, normVars, rawVars, driftVars, queryVars, urlVars, robotsVars, baselineVars>>

\* Lines 292-295, after a fetch with a 2xx status: the base paths, or the
\* paths with a timestamp suffix when a file sits at a base path.
AcquireChoosePaths ==
    /\ \E q \in Procs, stamp \in 1..MaxStamp :
          LET item == InventoryItem(cruns[q].item, "guide")
              base == artifact_paths(item, 0)
          IN  /\ cruns[q].kind = "acquire"
              /\ cpos[q] = "fetch"
              /\ ctarget' = [ctarget EXCEPT ![q] =
                               IF ArtifactFile(base[1]) \in cfiles
                                     \/ ArtifactFile(base[2]) \in cfiles
                                  THEN artifact_paths(item, stamp)
                                  ELSE base]
              /\ cpos' = [cpos EXCEPT ![q] = "raw"]
    /\ UNCHANGED <<cruns, cfiles, cwrites>>
    /\ UNCHANGED <<acqVars, renderVars, guideVars, normVars, rawVars, driftVars, queryVars, urlVars, robotsVars, baselineVars>>

\* write_raw_and_meta, lines 193-194.
AcquireWriteRaw ==
    /\ \E q \in Procs :
          /\ cruns[q].kind = "acquire"
          /\ cpos[q] = "raw"
          /\ Opens(q, ArtifactFile(ctarget[q][1]), "meta")
    /\ UNCHANGED <<cruns, ctarget>>
    /\ UNCHANGED <<acqVars, renderVars, guideVars, normVars, rawVars, driftVars, queryVars, urlVars, robotsVars, baselineVars>>

\* write_raw_and_meta, lines 195-214.
AcquireWriteMeta ==
    /\ \E q \in Procs :
          /\ cruns[q].kind = "acquire"
          /\ cpos[q] = "meta"
          /\ Opens(q, ArtifactFile(ctarget[q][2]), "done")
    /\ UNCHANGED <<cruns, ctarget>>
    /\ UNCHANGED <<acqVars, renderVars, guideVars, normVars, rawVars, driftVars, queryVars, urlVars, robotsVars, baselineVars>>

\* Some process has written a record to the normalized output.
OutputNonEmpty == \E q \in Procs : cpos[q] = "written"

\* normalize_reference_symbols, lines 29-40: the output_exists guard, then
\* the output file is opened in append mode.
NormalizeOpen ==
    /\ \E q \in Procs :
          /\ cruns[q].kind = "normalize"
          /\ cpos[q] = "guard"
          /\ IF OutputNonEmpty
                THEN /\ cpos' = [cpos EXCEPT ![q] = "output_exists"]
                     /\ UNCHANGED <<cfiles, cwrites>>
                ELSE Opens(q, NormalizedOutput, "write")
    /\ UNCHANGED <<cruns, ctarget>>
    /\ UNCHANGED <<acqVars, renderVars, guideVars, normVars, rawVars, driftVars, queryVars, urlVars, robotsVars, baselineVars>>

\* Lines 96-97: a record is written to the open file.
NormalizeWrite ==
    /\ \E q \in Procs :
          /\ cruns[q].kind = "normalize"
          /\ cpos[q] = "write"
          /\ cpos' = [cpos EXCEPT ![q] = "written"]
    /\ UNCHANGED <<cruns, ctarget, cfiles, cwrites>>
    /\ UNCHANGED <<acqVars, renderVars, guideVars, normVars, rawVars, driftVars, queryVars, urlVars, robotsVars, baselineVars>>

NextConc ==
    \/ ReferenceWrite
    \/ AcquireOpenLog
    \/ AcquireCheck
    \/ AcquireChoosePaths
    \/ AcquireWriteRaw
    \/ AcquireWriteMeta
    \/ NormalizeOpen
    \/ NormalizeWrite

SpecConc == InitConc /\ [][NextConc]_vars

DistinctRunIds(a, b) == a # b /\ cruns[a].run_id # cruns[b].run_id

\* C25 as stated: two processes with distinct run ids never open the same
\* path for writing.
C25_Original ==
    \A a, b \in Procs :
        DistinctRunIds(a, b) => cwrites[a] \cap cwrites[b] = {}

\* The paths that are not keyed by a run id: the raw artifacts and sidecars
\* under the output root, and the normalized store.
SharedByDesign(path) ==
    \/ path[1] = "raw" /\ path[2] # "rendered"
    \/ path[1] = "normalized"

\* C25, amended: every file of the rendered-reference pipeline and the run
\* log of an acquisition run carry the run id of the process that writes
\* them, and two processes with distinct run ids open the same path only
\* when it is a raw artifact, a sidecar or the normalized store.
C25_RunFilesPartitioned ==
    /\ \A q \in Procs : \A path \in cwrites[q] :
          ~SharedByDesign(path) =>
             /\ \E k \in 1..Len(path) : path[k] = cruns[q].run_id
             /\ path[Len(path) - 1] = cruns[q].run_id
                   \/ path[Len(path)] \in {"manifest.json", "reference.html"}
    /\ \A a, b \in Procs :
          DistinctRunIds(a, b) =>
             \A path \in cwrites[a] \cap cwrites[b] : SharedByDesign(path)

\* Two reference runs with distinct run ids both ran to their drift
\* reports.
C25_Witness ==
    \E a, b \in Procs :
        /\ DistinctRunIds(a, b)
        /\ cruns[a].kind = "reference" /\ cruns[b].kind = "reference"
        /\ cpos[a] = "done" /\ cpos[b] = "done"
        /\ Cardinality(cwrites[a]) = 6 /\ Cardinality(cwrites[b]) = 6

(***************************************************************************)
(* Retrieval: rag/orchestration/pine_query.py.  A URL is the sequence of   *)
(* its pieces (origin, "/", path segments), so that "contains /v6/" is a   *)
(* search for a subsequence.                                               *)
(***************************************************************************)

RETRIEVAL_MODES == {"reference_only", "reference_plus_guides"}

PINE_VERSIONS == {"v5", "v6"}

\* rendered_reference.REFERENCE_URL, with the version of the page.
ReferenceUrl(version) ==
    <<"https://www.tradingview.com", "/", "pine-script-reference", "/",
      version, "/">>

GuideUrl(version) ==
    <<"https://www.tradingview.com", "/", "pine-script-docs", "/", version,
      "/", "welcome">>

\* A line of chunks.jsonl, with the fields pine_query reads.
Chunk(doc_type, version) ==
    [chunk_id |-> doc_type \o ":" \o version,
     doc_type |-> doc_type,
     canonical_url |-> IF doc_type = "reference" THEN ReferenceUrl(version)
                                                 ELSE GuideUrl(version),
     reference_symbol_id |-> IF doc_type = "reference" THEN "bar_index" ELSE "",
     body |-> "text"]

ChunkChoices == { Chunk(d, v) : d \in {"reference", "guide"}, v \in PINE_VERSIONS }

\* The stored indexes: what _load_index can find in the latest directory.
IndexChoices ==
    UNION { [1..n -> ChunkChoices] : n \in 0..MaxChunks }

\* needle in text, for sequences of pieces.
ContainsPieces(text, needle) ==
    \E k \in 1..(Len(text) - Len(needle) + 1) :
        SubSeq(text, k, k + Len(needle) - 1) = needle

\* _build_provenance, lines 51-61 (run_id, source_artifact_id, segment_id and
\* anchor_id are copied likewise).
BuildProvenance(chunk) == [canonical_url |-> chunk.canonical_url]

\* A call that raises ValueError(reason).
QueryRaises(reason) ==
    [raised |-> reason, query |-> "", pine_version |-> "", mode |-> "",
     chunks |-> <<>>, warnings |-> <<>>]

\* pine_query, lines 64-119 ("none": an enrichment of None).
pine_query(query, pine_version, mode, indexes, enrich) ==
    IF pine_version \notin PINE_VERSIONS THEN QueryRaises("pine_version_invalid")
    ELSE IF mode \notin RETRIEVAL_MODES THEN QueryRaises("mode_invalid")
    ELSE
      LET chunks == indexes[pine_version]
          Keep(chunk) ==
              IF mode = "reference_only" THEN chunk.doc_type = "reference"
              ELSE IF pine_version = "v5" THEN chunk.doc_type = "reference"
              ELSE chunk.doc_type \in {"reference", "guide"}
          filtered == SelectSeq(chunks, Keep)
          response_chunks ==
              [k \in 1..Len(filtered) |->
                 [chunk_id |-> filtered[k].chunk_id,
                  content |-> filtered[k].body,
                  source_type |-> filtered[k].doc_type,
                  reference_symbol_id |-> filtered[k].reference_symbol_id,
                  enrichment |->
                      IF filtered[k].reference_symbol_id # ""
                            /\ filtered[k].reference_symbol_id \in enrich[pine_version]
                         THEN filtered[k].reference_symbol_id ELSE "none",
                  provenance |-> BuildProvenance(filtered[k])]]
          warnings ==
              IF pine_version = "v5" /\ mode = "reference_plus_guides"
                 THEN <<"guides_unavailable_for_v5">> ELSE <<>>
      IN  [raised |-> "", query |-> query, pine_version |-> pine_version,
           mode |-> mode, chunks |-> response_chunks, warnings |-> warnings]

\* _qc_checks, lines 122-146: the first check that fails, or "pass".
qc_checks(indexes, enrich) ==
    LET sample_query == "bar_index"
        response_a == pine_query(sample_query, "v5", "reference_only", indexes, enrich)
        response_b == pine_query(sample_query, "v5", "reference_only", indexes, enrich)
        response_v6_ref == pine_query(sample_query, "v6", "reference_only", indexes, enrich)
        response_v6_all ==
            pine_query(sample_query, "v6", "reference_plus_guides", indexes, enrich)
        Among(r, P(_)) == \E k \in 1..Len(r.chunks) : P(r.chunks[k])
        WrongVersion(chunk) ==
            ContainsPieces(chunk.provenance.canonical_url,
                           <<"/", "pine-script-reference", "/", "v6", "/">>)
        IsGuide(chunk) == chunk.source_type = "guide"
        Unenriched(chunk) ==
            chunk.source_type = "reference" /\ chunk.enrichment = "none"
    IN  IF response_a # response_b THEN "qc_fail_determinism"
        ELSE IF Among(response_a, WrongVersion) THEN "qc_fail_version_isolation"
        ELSE IF Among(response_v6_ref, IsGuide)
                THEN "qc_fail_mode_gating_reference_only"
        ELSE IF response_v6_all.chunks # <<>> /\ ~Among(response_v6_all, IsGuide)
                THEN "qc_fail_mode_gating_reference_plus_guides"
        ELSE IF Among(response_v6_ref, Unenriched)
                THEN "qc_fail_enrichment_attachment"
        ELSE "pass"

InitQuery ==
    /\ rag_indexes \in [PINE_VERSIONS -> IndexChoices]
    /\ enrichment \in [PINE_VERSIONS -> SUBSET {"bar_index"}]
    /\ response = <<>>
    /\ qc = ""
    /\ DriftAtRest
    /\ ConcAtRest
    /\ UrlAtRest
    /\ RobotsAtRest
    /\ BaselineAtRest
    /\ AcqAtRest
    /\ RenderAtRest
    /\ GuidesAtRest
    /\ NormAtRest
    /\ RawAtRest

\* A caller asks pine_query; the version and mode tags may be invalid.
PineQuery ==
    /\ \E pine_version \in PINE_VERSIONS \cup {"v4"},
          mode \in RETRIEVAL_MODES \cup {"guides_only"} :
          response' = pine_query("bar_index", pine_version, mode,
                                 rag_indexes, enrichment)
    /\ UNCHANGED <<rag_indexes, enrichment, qc>>
    /\ UNCHANGED <<acqVars, renderVars, guideVars, normVars, rawVars, driftVars, concVars, urlVars, robotsVars, baselineVars>>

\* python pine_query.py: _qc_checks runs on the stored indexes.
QcChecks ==
    /\ qc = ""
    /\ qc' = qc_checks(rag_indexes, enrichment)
    /\ UNCHANGED <<rag_indexes, enrichment, response>>
    /\ UNCHANGED <<acqVars, renderVars, guideVars, normVars, rawVars, driftVars, concVars, urlVars, robotsVars, baselineVars>>

NextQuery ==
    \/ PineQuery
    \/ QcChecks

SpecQuery == InitQuery /\ [][NextQuery]_vars

\* A query has been answered.
Answered == response # <<>> /\ response.raised = ""

ReturnsGuide == \E k \in 1..Len(response.chunks) : response.chunks[k].source_type = "guide"

IndexHasGuide(version) ==
    \E k \in 1..Len(rag_indexes[version]) : rag_indexes[version][k].doc_type = "guide"

\* C26: a reference_only response holds no chunk of source_type guide, and
\* a reference_plus_guides response, for v5 and for v6, holds a chunk of
\* source_type guide whenever the index of that version holds a guide chunk.
C26_ModeGating ==
    Answered =>
       /\ response.mode = "reference_only" => ~ReturnsGuide
       /\ (response.mode = "reference_plus_guides"
              /\ IndexHasGuide(response.pine_version)) => ReturnsGuide

OtherVersion(version) == IF version = "v5" THEN "v6" ELSE "v5"

\* C27: no chunk of a response has a canonical URL that contains the path
\* segment of the other version (/v6/ for a v5 query, /v5/ for a v6 query),
\* whatever the stored indexes hold.
C27_VersionIsolation ==
    Answered =>
       \A k \in 1..Len(response.chunks) :
          ~ContainsPieces(response.chunks[k].provenance.canonical_url,
                          <<"/", OtherVersion(response.pine_version), "/">>)

(***************************************************************************)
(* URL canonicalization: discovery.canonicalize_url.  A URL text is the    *)
(* sequence of its pieces: the delimiters ":", "/", "?", "#" one by one,   *)
(* and every run of other characters (a scheme name, a host name, a port,  *)
(* a path segment) as one piece.                                           *)
(***************************************************************************)

SchemeChoices == {<<>>, <<"http", ":">>, <<"https", ":">>}

NetlocChoices ==
    {<<>>, <<"/", "/">>,
     <<"/", "/", "tradingview.com">>,
     <<"/", "/", "www.tradingview.com">>,
     <<"/", "/", "example.com">>,
     <<"/", "/", "tradingview.com", ":", "443">>}

PathChoices == UNION { [1..n -> {"/", "a"}] : n \in 0..MaxPathLen }

QueryChoices == {<<>>, <<"?", "q">>}

FragmentChoices == {<<>>, <<"#", "f">>}

UrlChoices ==
    { s \o n \o p \o q \o f :
        s \in SchemeChoices, n \in NetlocChoices, p \in PathChoices,
        q \in QueryChoices, f \in FragmentChoices }

Delimiters == {":", "/", "?", "#"}

\* str.find from a position, for a set of delimiters: Len + 1 when absent.
FindPiece(text, pieces, from) ==
    LET hits == {k \in from..Len(text) : text[k] \in pieces}
    IN  IF hits = {} THEN Len(text) + 1
        ELSE CHOOSE k \in hits : \A j \in hits : k <= j

\* urllib.parse.urlparse (urlsplit): scheme, netloc, path, query, fragment.
\* Every piece but a delimiter is made of scheme characters; "443" does not
\* start with a letter.
urlparse(url) ==
    LET colon == FindPiece(url, {":"}, 1)
        has_scheme == /\ colon <= Len(url)
                      /\ colon > 1
                      /\ url[1] # "443"
                      /\ \A k \in 1..(colon - 1) : url[k] \notin Delimiters
        after_scheme == IF has_scheme THEN SubSeq(url, colon + 1, Len(url)) ELSE url
        has_netloc == /\ Len(after_scheme) >= 2
                      /\ after_scheme[1] = "/"
                      /\ after_scheme[2] = "/"
        delim == FindPiece(after_scheme, {"/", "?", "#"}, 3)
        after_netloc == IF has_netloc
                           THEN SubSeq(after_scheme, delim, Len(after_scheme))
                           ELSE after_scheme
        hash == FindPiece(after_netloc, {"#"}, 1)
        before_hash == SubSeq(after_netloc, 1, hash - 1)
        mark == FindPiece(before_hash, {"?"}, 1)
    IN  [scheme |-> IF has_scheme THEN SubSeq(url, 1, colon - 1) ELSE <<>>,
         netloc |-> IF has_netloc THEN SubSeq(after_scheme, 3, delim - 1) ELSE <<>>,
         path |-> SubSeq(before_hash, 1, mark - 1),
         query |-> SubSeq(before_hash, mark + 1, Len(before_hash)),
         fragment |-> SubSeq(after_netloc, hash + 1, Len(after_netloc))]

\* urllib.parse.urlunparse with empty params, query and fragment, for a
\* scheme that uses a netloc.
urlunparse(scheme, netloc, path) ==
    LET slashed == IF path # <<>> /\ path[1] # "/" THEN <<"/">> \o path ELSE path
        with_netloc ==
            IF netloc # <<>> \/ ~(Len(path) >= 2 /\ path[1] = "/" /\ path[2] = "/")
               THEN <<"/", "/">> \o netloc \o slashed
               ELSE path
    IN  scheme \o <<":">> \o with_netloc

\* str.rstrip("/").
RECURSIVE RStripSlash(_)
RStripSlash(path) ==
    IF path # <<>> /\ path[Len(path)] = "/"
       THEN RStripSlash(SubSeq(path, 1, Len(path) - 1))
       ELSE path

\* canonicalize_url, lines 87-98 (<<>>: None).
canonicalize_url(raw_url) ==
    LET parsed == urlparse(raw_url)
        netloc == IF parsed.netloc # <<>> THEN parsed.netloc
                                          ELSE <<"www.tradingview.com">>
        folded == IF netloc = <<"tradingview.com">> THEN <<"www.tradingview.com">>
                                                    ELSE netloc
        path == IF parsed.path # <<>> THEN parsed.path ELSE <<"/">>
        stripped == IF path # <<"/">> /\ path[Len(path)] = "/"
                       THEN RStripSlash(path) ELSE path
    IN  IF parsed.scheme = <<>> /\ parsed.netloc = <<>> THEN <<>>
        ELSE urlunparse(<<"https">>, folded, stripped)

InitUrl ==
    /\ upc = "input"
    /\ url_in \in UrlChoices
    /\ url_out = <<>>
    /\ url_again = <<>>
    /\ DriftAtRest
    /\ ConcAtRest
    /\ QueryAtRest
    /\ RobotsAtRest
    /\ BaselineAtRest
    /\ AcqAtRest
    /\ RenderAtRest
    /\ GuidesAtRest
    /\ NormAtRest
    /\ RawAtRest

\* canonicalize_url on the input.
Canonicalize ==
    /\ upc = "input"
    /\ url_out' = canonicalize_url(url_in)
    /\ upc' = "once"
    /\ UNCHANGED <<url_in, url_again>>
    /\ UNCHANGED <<acqVars, renderVars, guideVars, normVars, rawVars, driftVars, concVars, queryVars, robotsVars, baselineVars>>

\* canonicalize_url on its own result (normalize_entry_point on a URL that
\* was canonicalized before).
Recanonicalize ==
    /\ upc = "once"
    /\ url_out # <<>>
    /\ url_again' = canonicalize_url(url_out)
    /\ upc' = "twice"
    /\ UNCHANGED <<url_in, url_out>>
    /\ UNCHANGED <<acqVars, renderVars, guideVars, normVars, rawVars, driftVars, concVars, queryVars, robotsVars, baselineVars>>

NextUrl ==
    \/ Canonicalize
    \/ Recanonicalize

SpecUrl == InitUrl /\ [][NextUrl]_vars

\* The host of a netloc: what stands before the port.
HostOf(netloc) == JoinChars(SubSeq(netloc, 1, FindPiece(netloc, {":"}, 1) - 1))

\* Canonicalizing a result again gives the result.
Idempotent == upc = "twice" => url_again = url_out

\* C28: for an accepted URL the result has scheme https, host
\* www.tradingview.com when the input's host is tradingview.com, no query and
\* no fragment, and a path that is "/" or does not end in a slash; and
\* canonicalizing the result again gives the result.
C28_NormalFormIdempotent ==
    (upc \in {"once", "twice"} /\ url_out # <<>>) =>
       LET given == urlparse(url_in)
           got == urlparse(url_out)
       IN  /\ got.scheme = <<"https">>
           /\ HostOf(given.netloc) = "tradingview.com"
                 => HostOf(got.netloc) = "www.tradingview.com"
           /\ got.query = <<>>
           /\ got.fragment = <<>>
           /\ got.path = <<"/">> \/ got.path = <<>>
                 \/ got.path[Len(got.path)] # "/"
           /\ Idempotent

(***************************************************************************)
(* The render poll loop: its counters and its termination.                 *)
(***************************************************************************)

\* The number of polls just before the last one, going back without a gap,
\* whose count equals the count of the last poll.
TrailingRepeats(polls) ==
    LET n == Len(polls)
        runs_back == {j \in 0..(n - 1) : \A i \in 1..j : polls[n - i] = polls[n]}
    IN  CHOOSE j \in runs_back : \A k \in runs_back : k <= j

\* C31: after every poll stable_count is the number of immediately preceding
\* consecutive polls with the count of the current one (0 after the first
\* poll and after a change), and the scrolls issued never exceed max_scrolls.
C31_StabilityCounter ==
    /\ observed # <<>> => stable_count = TrailingRepeats(observed)
    /\ rpc \notin {"off"} => scrolls <= config.max_scrolls

\* Two equal polls and then a different one, after the one allowed scroll.
C31_Witness ==
    /\ Len(observed) >= 3
    /\ observed[Len(observed) - 2] = observed[Len(observed) - 1]
    /\ observed[Len(observed)] # observed[Len(observed) - 1]
    /\ stable_count = 0
    /\ config.max_scrolls = 1
    /\ scrolls = 1

\* render_reference alone, with every Playwright call returning: the loop
\* body and the return are scheduled whenever they can run.
NextRenderLoop ==
    \/ RenderGoto
    \/ RenderPoll
    \/ RenderScrollSleep
    \/ RenderReturn

SpecRenderLoop ==
    /\ InitRender
    /\ [][NextRenderLoop]_vars
    /\ WF_vars(RenderGoto)
    /\ WF_vars(RenderPoll)
    /\ WF_vars(RenderScrollSleep)
    /\ WF_vars(RenderReturn)

\* The polls made so far fit under the wall-clock ceiling.
PollsBounded ==
    config.stabilize_interval_seconds > 0 =>
       (Len(observed) - 1) * config.stabilize_interval_seconds
           <= config.max_wait_seconds

\* C32: when every poll returns and each iteration takes at least
\* stabilize_interval_seconds > 0, the loop is left after at most
\* max_wait_seconds / stabilize_interval_seconds + 1 polls, whatever the
\* counts observed, and render_reference returns complete, partial or failed.
C32_PollLoopTerminates ==
    /\ []PollsBounded
    /\ <>(rpc = "returned" /\ status \in {"complete", "partial", "failed"})

\* A page that never settles: the loop is left by the ceiling after the
\* last poll the ceiling allows, and the status is failed.
C32_Witness ==
    /\ rpc = "returned"
    /\ exitBy = "timeout"
    /\ status = "failed"
    /\ Len(observed) = MaxWait + 1
    /\ \A k \in 2..Len(observed) : observed[k] # observed[k - 1]

(***************************************************************************)
(* parse_robots_disallow on its own, over longer robots.txt texts.         *)
(***************************************************************************)

\* The lines of RobotsLines, and also a blank line and a directive that is
\* neither user-agent nor disallow.
RobotsTextLines ==
    RobotsLines \cup { RobotsLine("blank", "", <<>>),
                       RobotsLine("allow", "", <<"/">>) }

InitRobots ==
    /\ bpc = "input"
    /\ robots_in \in SeqsUpTo(RobotsTextLines, MaxRobotsText)
    /\ robots_out = <<>>
    /\ DriftAtRest
    /\ ConcAtRest
    /\ QueryAtRest
    /\ UrlAtRest
    /\ BaselineAtRest
    /\ AcqAtRest
    /\ RenderAtRest
    /\ GuidesAtRest
    /\ NormAtRest
    /\ RawAtRest

\* acquire_inventory, line 233: disallow_paths = parse_robots_disallow(...).
ParseRobots ==
    /\ bpc = "input"
    /\ robots_out' = parse_robots_disallow(robots_in)
    /\ bpc' = "parsed"
    /\ UNCHANGED robots_in
    /\ UNCHANGED <<acqVars, renderVars, guideVars, normVars, rawVars, driftVars, concVars, queryVars, urlVars, baselineVars>>

NextRobots == ParseRobots

SpecRobots == InitRobots /\ [][NextRobots]_vars

\* Line k is a Disallow line with a value, and the last User-agent line
\* before it names "*".
WildcardRule(text, k) ==
    /\ text[k].field = "disallow"
    /\ text[k].path # <<>>
    /\ \E j \in 1..(k - 1) :
          /\ text[j].field = "user-agent"
          /\ text[j].agent = "*"
          /\ \A i \in (j + 1)..(k - 1) : text[i].field # "user-agent"

\* The number of wildcard rules among the first k lines.
RulesUpTo(text, k) == Cardinality({j \in 1..k : WildcardRule(text, j)})

\* C33: the list returned holds, in file order, exactly the non-empty
\* Disallow paths whose most recent preceding User-agent line names "*";
\* no other line contributes.
C33_WildcardScoped ==
    bpc = "parsed" =>
       /\ Len(robots_out) = RulesUpTo(robots_in, Len(robots_in))
       /\ \A k \in 1..Len(robots_in) :
             WildcardRule(robots_in, k) =>
                robots_out[RulesUpTo(robots_in, k)] = robots_in[k].path

\* A rule before any User-agent line, a wildcard group with one rule, and a
\* rule of another agent's group: one path is returned.
C33_Witness ==
    /\ bpc = "parsed"
    /\ Len(robots_in) = 4
    /\ robots_in[1].field = "disallow" /\ robots_in[1].path # <<>>
    /\ robots_in[2].field = "user-agent" /\ robots_in[2].agent = "*"
    /\ robots_in[3].field = "disallow" /\ robots_in[3].path # <<>>
    /\ robots_in[4].field = "user-agent" /\ robots_in[4].agent = "bot"
    /\ robots_out = <<robots_in[3].path>>

(***************************************************************************)
(* Baseline selection for the drift report: previous_manifest on its own.  *)
(***************************************************************************)

InitBaseline ==
    /\ mpc = "input"
    /\ \E have \in SUBSET RunIds : mlisting \in Listings(have)
    /\ mcurrent \in RunIds
    /\ mchosen = ""
    /\ DriftAtRest
    /\ ConcAtRest
    /\ QueryAtRest
    /\ UrlAtRest
    /\ RobotsAtRest
    /\ AcqAtRest
    /\ RenderAtRest
    /\ GuidesAtRest
    /\ NormAtRest
    /\ RawAtRest

\* main, line 318: baseline_path = previous_manifest(run_id).
SelectBaseline ==
    /\ mpc = "input"
    /\ mchosen' = previous_manifest(mcurrent, mlisting)
    /\ mpc' = "chosen"
    /\ UNCHANGED <<mlisting, mcurrent>>
    /\ UNCHANGED <<acqVars, renderVars, guideVars, normVars, rawVars, driftVars, concVars, queryVars, urlVars, robotsVars>>

NextBaseline == SelectBaseline

SpecBaseline == InitBaseline /\ [][NextBaseline]_vars

\* The runs with a manifest, and those of them before the current run.
Listed == {mlisting[k] : k \in 1..Len(mlisting)}

EarlierListed == {r \in Listed : RunRank(r) < RunRank(mcurrent)}

\* C34: previous_manifest(r) returns the manifest of the greatest run id
\* below r among the runs that have a manifest, and nothing when r has no
\* manifest or no run with a manifest is below it; the answer is a function
\* of the set of runs, not of the order in which they are listed.
C34_BaselineIsGreatestEarlier ==
    mpc = "chosen" =>
       IF mcurrent \in Listed /\ EarlierListed # {}
          THEN /\ mchosen \in EarlierListed
               /\ \A r \in EarlierListed : RunRank(r) <= RunRank(mchosen)
          ELSE mchosen = "none"

\* Three manifests listed out of order, the current run the last in time:
\* the baseline is the middle one.
C34_Witness ==
    /\ mpc = "chosen"
    /\ mlisting = <<"r3", "r0", "r2">>
    /\ mcurrent = "r3"
    /\ mchosen = "r2"

(***************************************************************************)
(* segment_artifacts: what it returns for each artifact.                   *)
(***************************************************************************)

\* The failure records of one raw artifact, by position.
FailuresOfArtifact(id) ==
    {f \in 1..Len(rawFailures) : rawFailures[f].source_artifact_id = id}

\* The segments a page holds: its h2 sections and its lead text, or its
\* elements with an id.
SegmentsInPage(artifact) ==
    IF artifact.doc_type = "guide"
       THEN artifact.doc.h2 + (IF artifact.doc.lead THEN 1 ELSE 0)
    ELSE IF artifact.doc_type = "reference" THEN Len(artifact.doc.ids)
    ELSE 0

\* C35: for every artifact segment_artifacts has processed, either all of
\* its segments are in the segment list and it has no failure record, or it
\* has exactly one failure record and none of its segments is in the list.
C35_AllOrNothingPerArtifact ==
    \A k \in 1..aIdx :
        LET id == artifacts[k].source_artifact_id
            segs == SegmentsOfArtifact(id)
            fails == FailuresOfArtifact(id)
        IN  \/ /\ fails = {}
               /\ segs # <<>>
               /\ Len(segs) = SegmentsInPage(artifacts[k])
            \/ /\ Cardinality(fails) = 1
               /\ \A f \in fails : rawFailures[f].reason # ""
               /\ segs = <<>>

\* Two artifacts were processed: a guide page with lead text and no h2
\* failed, and the other page gave its two or more segments.
C35_Witness ==
    /\ spc = "returned"
    /\ aIdx = 2
    /\ \E k \in 1..2 :
          /\ artifacts[k].doc_type = "guide"
          /\ artifacts[k].doc.container
          /\ artifacts[k].doc.h2 = 0
          /\ artifacts[k].doc.lead
          /\ Cardinality(FailuresOfArtifact(artifacts[k].source_artifact_id)) = 1
          /\ Len(SegmentsOfArtifact(artifacts[3 - k].source_artifact_id)) >= 2
    /\ Len(rawFailures) = 1

(***************************************************************************)
(* acquire_inventory: the counters it returns.                             *)
(***************************************************************************)

\* C36: when acquire_inventory returns, attempted is the sum of written,
\* skipped, failed_guide and failed_reference; failed_reference is 0 or 1;
\* attempted is at most the inventory length, and equal to it when no
\* reference failed; the run log holds failed_guide + failed_reference
\* records.
C36_CountersAddUp ==
    pc = "done" =>
       /\ counts.attempted = counts.written + counts.skipped
                               + counts.failed_guide + counts.failed_reference
       /\ counts.failed_reference \in {0, 1}
       /\ counts.attempted <= Len(inventory)
       /\ counts.failed_reference = 0 => counts.attempted = Len(inventory)
       /\ Len(log) = counts.failed_guide + counts.failed_reference

\* A run that wrote an artifact, logged a guide failure and then halted on a
\* reference failure before the end of the inventory, or after a skip.
C36_Witness ==
    /\ pc = "done"
    /\ counts.written >= 1
    /\ counts.failed_reference = 1
    /\ counts.attempted >= 2
    /\ counts.attempted < Len(inventory) \/ counts.failed_guide >= 1
    /\ Len(log) = counts.failed_guide + 1

(***************************************************************************)
(* acquire_inventory over one item, run again and again on one output      *)
(* root: what becomes of the files already there.                          *)
(***************************************************************************)

InitRewrite ==
    /\ \E dt \in DocTypes : inventory = <<InventoryItem(1, dt)>>
    /\ files = <<>>
    /\ InitRun(1, MaxRewriteRuns)
    /\ RenderAtRest
    /\ GuidesAtRest
    /\ NormAtRest
    /\ RawAtRest
    /\ ToolsAtRest

SpecRewrite == InitRewrite /\ [][NextReacq]_vars

\* A file sits at a base path of the item being fetched.
BaseTaken(fs, item) ==
    \/ Exists(fs, artifact_paths(item, 0)[1])
    \/ Exists(fs, artifact_paths(item, 0)[2])

\* C37 as stated: no step of acquire_inventory changes a file that is on
\* disk, and when a fetch succeeded while a raw file or a sidecar sits at the
\* item's base path, the paths chosen for the write carry a timestamp
\* suffix.
C37_NeverOverwrites ==
    [][/\ \A p \in DOMAIN files :
             p \in DOMAIN files' /\ files'[p] = files[p]
       /\ (pc' = "write_raw" /\ BaseTaken(files', inventory[idx'])) =>
             target'[1].suffix # 0]_vars


(***************************************************************************)
(* The v5 guide stores after normalize_guides.                             *)
(***************************************************************************)
\* Every section of the sequence names a page the page sequence holds.
PagesCover(sections, pages) ==
    \A j \in 1..Len(sections) :
        \E k \in 1..Len(pages) :
            pages[k].guide_page_id = sections[j].guide_page_id

V5Returned == entry = "v5" /\ npc = "done" /\ nruns >= 1

\* C38 as stated: after normalize_guides returns on stores whose sections
\* all had their page, every GuideSection of the guide_sections store,
\* fallback sections included, has a guide_page_id for which the
\* guide_pages store holds a GuidePage.
C38_SectionsHavePages ==
    (V5Returned /\ PagesCover(storeBefore, pagesBefore)) =>
        PagesCover(store, pages_store)

\* C39: a second run of normalize_guides on the same segments file and the
\* same segmentation-run log appends no record: the sections written count
\* is 0, no page is added, and both stores are what they were before the run.
C39_SecondRunAppendsNothing ==
    (entry = "v5" /\ nruns >= 2 /\ npc \in {"done", "raised"}) =>
        /\ store = storeBefore
        /\ pages_store = pagesBefore
        /\ Len(pages_store) - Len(pagesBefore) = 0
        /\ (npc = "done" => written = 0)

\* The second run has returned and the first one had appended sections and
\* pages: the stores hold more than any initial store does.
C39_Witness ==
    /\ entry = "v5"
    /\ nruns = 2
    /\ npc = "done"
    /\ Len(store) >= 2
    /\ Len(pages_store) >= 2

====
